---- MODULE Spec2Model ----
(***************************************************************************)
(* Type resolution of a PostgreSQL connection (sqlx-core,                  *)
(* postgres/connection/describe.rs): the local type catalog, the           *)
(* re-entrancy guard fetching_types, maybe_fetch_type_info_by_oid,         *)
(* fetch_declared and fetch_type, and the merge of the two nullability     *)
(* sources in get_nullable_for_columns.                                    *)
(***************************************************************************)
EXTENDS Integers, Sequences, FiniteSets, TLC

VARIABLES
    local_catalog,   \* PgConnection.local_catalog: type reference -> entry state
    fetching_types,  \* PgConnection.fetching_types, the re-entrancy guard
    pc,              \* position of the outer resolution call
    call,            \* locals of the outer maybe_fetch_type_info_by_oid call
    unfetched,       \* fetch_declared: what is left of the worklist being drained
    cur,             \* fetch_declared: the reference whose query is in flight
    row,             \* fetch_type: the pg_type row awaiting its secondary query
    res,             \* what the step just taken returned to its caller, if it returned
    stats,           \* bookkeeping of the current outer call (queries, inserts, ...)
    failed,          \* per reference: lookups that found no row, over the catalog lifetime
    pg_range,        \* the server's pg_range rows (fixed from the start)
    nq_n,            \* get_nullable_for_columns: meta.columns.len()
    nq_cols,         \* get_nullable_for_columns: result of the pg_attribute query
    nq_patch,        \* get_nullable_for_columns: result of nullables_from_explain
    nq_crdb,         \* parameter_statuses contains "crdb_version"
    nq_out,          \* get_nullable_for_columns: the returned vector
    nq_pc,           \* position of get_nullable_for_columns
    nq_plan,         \* the plan the explain query answered with
    nq_stat,         \* queries get_nullable_for_columns issued in the current call
    dec_pc,          \* PgRecordDecoder: absent, usable, or ended by an error or a panic
    dec_value,       \* the PgValueRef handed to PgRecordDecoder::new
    dec_buf,         \* PgRecordDecoder.buf
    dec_ind,         \* PgRecordDecoder.ind
    dec_out,         \* what the try_decode calls returned, in order
    enc_pc,          \* PgRecordEncoder: absent, open, or finished
    enc_buf,         \* the PgArgumentBuffer the encoder writes to
    enc_holes,       \* the buffer's type holes: (offset, type name) to patch on execution
    enc_off,         \* PgRecordEncoder.off
    enc_num,         \* PgRecordEncoder.num
    enc_before,      \* the buffer as it was when the encoder was made
    enc_log,         \* the encode calls made: type, value, offset the call started at
    cod_pc,          \* a scalar value: none, on the wire, or decoded
    cod_ty,          \* the Rust type encoded from and decoded to, with its wire type
    cod_val,         \* the value that was encoded or that the server sent
    cod_fmt,         \* PgValueRef.format
    cod_wire,        \* the bytes on the wire
    cod_src,         \* who wrote the bytes: the Encode impl or the server
    cod_res,         \* what Decode::decode returned
    cod_arg,         \* the argument buffer the value was encoded into, with its patches
    hrd_pc,          \* handle_row_description: not running, in its loop, or returned
    hrd_desc,        \* its argument desc
    hrd_fetch,       \* its argument should_fetch
    hrd_index,       \* the index of the field the loop is at
    hrd_columns,     \* its local columns
    hrd_names,       \* its local column_names, as (name, index) pairs
    hrd_log,         \* how the type of each field visited so far resolved
    hrd_nq,          \* catalog queries issued on behalf of this call
    hrd_ret,         \* what the call returned
    ft_pc,           \* fetch_type called on its own: which query it awaits
    ft_ref,          \* its argument ty_ref
    ft_row,          \* the pg_type row it got
    ft_out           \* what it returned

resolverVars == <<local_catalog, fetching_types, pc, call, unfetched, cur, row, res,
                  stats, failed, pg_range>>
nullableVars == <<nq_n, nq_cols, nq_patch, nq_crdb, nq_out, nq_pc, nq_plan, nq_stat>>
decoderVars == <<dec_pc, dec_value, dec_buf, dec_ind, dec_out>>
encoderVars == <<enc_pc, enc_buf, enc_holes, enc_off, enc_num, enc_before, enc_log>>
codecVars == <<cod_pc, cod_ty, cod_val, cod_fmt, cod_wire, cod_src, cod_res, cod_arg>>
describeVars == <<hrd_pc, hrd_desc, hrd_fetch, hrd_index, hrd_columns, hrd_names,
                  hrd_log, hrd_nq, hrd_ret>>
fetchTypeVars == <<ft_pc, ft_ref, ft_row, ft_out>>
nonResolverVars == <<nullableVars, decoderVars, encoderVars, codecVars, describeVars,
                     fetchTypeVars>>
nonNullableVars == <<resolverVars, decoderVars, encoderVars, codecVars, describeVars,
                     fetchTypeVars>>
nonDecoderVars == <<resolverVars, nullableVars, encoderVars, codecVars, describeVars,
                    fetchTypeVars>>
nonEncoderVars == <<resolverVars, nullableVars, decoderVars, codecVars, describeVars,
                    fetchTypeVars>>
nonCodecVars == <<resolverVars, nullableVars, decoderVars, encoderVars, describeVars,
                  fetchTypeVars>>
codecsAndNullable == <<nullableVars, decoderVars, encoderVars, codecVars, fetchTypeVars>>
nonFetchTypeVars == <<resolverVars, nullableVars, decoderVars, encoderVars, codecVars,
                      describeVars>>
vars == <<local_catalog, fetching_types, pc, call, unfetched, cur, row, res, stats,
          failed, pg_range, nq_n, nq_cols, nq_patch, nq_crdb, nq_out, nq_pc, nq_plan,
          nq_stat, dec_pc, dec_value, dec_buf, dec_ind, dec_out, enc_pc, enc_buf,
          enc_holes, enc_off, enc_num, enc_before, enc_log, cod_pc, cod_ty, cod_val,
          cod_fmt, cod_wire, cod_src, cod_res, cod_arg, hrd_pc, hrd_desc, hrd_fetch, hrd_index,
          hrd_columns, hrd_names, hrd_log, hrd_nq, hrd_ret, ft_pc, ft_ref, ft_row,
          ft_out>>

(***************************************************************************)
(* Type references (PgTypeRef) and the server's system catalog.            *)
(***************************************************************************)
Oid(o) == [t |-> "Oid", v |-> o]
Name(n) == [t |-> "Name", v |-> n]

\* OIDs 1 .. MaxOid may be asked for; type names are numbered 11 .. 10 + MaxOid.
\* The server knows the types 1 .. 4 only (PgTypeRows).
MaxOid == 5
Oids == 1 .. MaxOid
Names == {10 + o : o \in Oids}

\* typname ILIKE $2 is a pattern match: a name with a wildcard (`_`, `%`) matches
\* type names other than itself.  Pattern(n) is a name, borne by no type of the
\* server, that matches the type name n.
Pattern(n) == 0 - n
ILike(typname, pattern) == typname = pattern \/ Pattern(typname) = pattern

\* The one wildcard name that may be referred to: it matches the enum type 2.
PatternRef == Name(Pattern(12))

AllRefs == {Oid(o) : o \in Oids} \cup {Name(n) : n \in Names} \cup {PatternRef}

\* The order in which get_unfetched yields references.
RefOrder ==
    [i \in 1 .. MaxOid |-> Oid(i)] \o [i \in 1 .. MaxOid |-> Name(10 + i)]
        \o <<PatternRef>>

\* pg_type rows of the server: (oid, typname, typtype, typcategory, typrelid,
\* typelem, typbasetype).
PgTypeRows ==
    { [oid |-> 1, typname |-> 11, typtype |-> "c", typcategory |-> "C",
       typrelid |-> 101, typelem |-> 0, typbasetype |-> 0],
      [oid |-> 2, typname |-> 12, typtype |-> "e", typcategory |-> "E",
       typrelid |-> 0, typelem |-> 0, typbasetype |-> 0],
      [oid |-> 3, typname |-> 13, typtype |-> "b", typcategory |-> "A",
       typrelid |-> 0, typelem |-> 1, typbasetype |-> 0],
      [oid |-> 4, typname |-> 14, typtype |-> "r", typcategory |-> "R",
       typrelid |-> 0, typelem |-> 0, typbasetype |-> 0] }

\* pg_attribute: atttypid of the live attributes of a relation, by attnum.
PgAttribute(relid) == IF relid = 101 THEN <<2, 3>> ELSE <<>>

\* pg_enum: (enumtypid, enumsortorder, enumlabel) of the labels of the enum type 2.
PgEnumRows ==
    {[enumtypid |-> 2, enumsortorder |-> 2, enumlabel |-> "a"],
     [enumtypid |-> 2, enumsortorder |-> 1, enumlabel |-> "b"]}

\* SELECT enumlabel FROM pg_enum WHERE enumtypid = $1 ORDER BY enumsortorder
PgEnum(oid) ==
    LET rows == {x \in PgEnumRows : x.enumtypid = oid}
        n == Cardinality(rows)
        sorted == CHOOSE f \in [1 .. n -> rows] :
                      \A i, j \in 1 .. n : i < j => f[i].enumsortorder < f[j].enumsortorder
    IN  [i \in 1 .. n |-> sorted[i].enumlabel]

\* pg_range: the row (rngtypid, rngsubtype) of the range type 4; a server may lack it.
PgRangeRows == {[rngtypid |-> 4, rngsubtype |-> 2]}

NoRow ==
    [oid |-> 0, typname |-> 0, typtype |-> "", typcategory |-> "",
     typrelid |-> 0, typelem |-> 0, typbasetype |-> 0]
NoRef == [t |-> "None", v |-> 0]

(***************************************************************************)
(* The local type catalog.  A reference is Undeclared (no entry),          *)
(* Unfetched, Fetched or Missing.  A descriptor is identified by its OID;  *)
(* its kind gives the references it depends on.                            *)
(***************************************************************************)
EntryStates == {"Undeclared", "Unfetched", "Fetched", "Missing"}

\* resolve_type_info(ref): Ok for a Fetched entry, else the entry's error.
resolve_type_info(cat, ref) == cat[ref]

\* get_unfetched(): the Unfetched references, in catalog order.
get_unfetched(cat) == SelectSeq(RefOrder, LAMBDA r : cat[r] = "Unfetched")

\* The references a descriptor's kind holds.
KindRefs(kind) ==
    CASE kind.k = "Array" -> {Oid(kind.elem)}
      [] kind.k = "Domain" -> {Oid(kind.base)}
      [] kind.k = "Range" -> {Oid(kind.elem)}
      [] kind.k = "Composite" -> {Oid(kind.fields[i]) : i \in DOMAIN kind.fields}
      [] OTHER -> {}

\* insert_type(ty): the OID and the name of ty become Fetched; the references
\* its kind holds that have no entry yet become Unfetched.
insert_type(cat, ty) ==
    [r \in AllRefs |->
        IF r = Oid(ty.oid) \/ r = Name(ty.name) THEN "Fetched"
        ELSE IF r \in KindRefs(ty.kind) /\ cat[r] = "Undeclared" THEN "Unfetched"
        ELSE cat[r]]

\* flag_type_as_missing(ref)
flag_type_as_missing(cat, ref) == [cat EXCEPT ![ref] = "Missing"]

\* A reference met while encoding a value is declared: it gets an Unfetched entry.
declare_type(cat, ref) ==
    [cat EXCEPT ![ref] = IF @ = "Undeclared" THEN "Unfetched" ELSE @]

(***************************************************************************)
(* fetch_type: the pg_type lookup and the dispatch on (typtype,            *)
(* typcategory).                                                           *)
(***************************************************************************)
TypTypeFrom(t) ==
    CASE t = "b" -> "Base"
      [] t = "c" -> "Composite"
      [] t = "d" -> "Domain"
      [] t = "e" -> "Enum"
      [] t = "p" -> "Pseudo"
      [] t = "r" -> "Range"
      [] OTHER -> "Err"

TypCategoryFrom(c) ==
    CASE c = "A" -> "Array"
      [] c = "B" -> "Boolean"
      [] c = "C" -> "Composite"
      [] c = "D" -> "DateTime"
      [] c = "E" -> "Enum"
      [] c = "G" -> "Geometric"
      [] c = "I" -> "Network"
      [] c = "N" -> "Numeric"
      [] c = "P" -> "Pseudo"
      [] c = "R" -> "Range"
      [] c = "S" -> "String"
      [] c = "T" -> "Timespan"
      [] c = "U" -> "User"
      [] c = "V" -> "BitString"
      [] c = "X" -> "Unknown"
      [] OTHER -> "Err"

\* The match deciding by typ_type alone.
Dispatch_ByTypType(r) ==
    LET tt == TypTypeFrom(r.typtype)
    IN  CASE tt = "Domain" -> "Domain"
          [] tt = "Pseudo" -> "Pseudo"
          [] tt = "Range" -> "Range"
          [] tt = "Enum" -> "Enum"
          [] tt = "Composite" -> "Composite"
          [] OTHER -> "Simple"

\* The arm of the match on (typ_type, category) that a row takes.
Dispatch(r) ==
    LET tt == TypTypeFrom(r.typtype)
        tc == TypCategoryFrom(r.typcategory)
    IN  CASE tt = "Domain" -> "Domain"
          [] tt = "Base" /\ tc = "Array" -> "Array"
          [] tt = "Pseudo" /\ tc = "Pseudo" -> "Pseudo"
          [] tt = "Range" /\ tc = "Range" -> "Range"
          [] tt = "Enum" /\ tc = "Enum" -> "Enum"
          [] tt = "Composite" /\ tc = "Composite" -> "Composite"
          [] OTHER -> "Simple"

\* The arms that await one more catalog query before the descriptor is built.
NeedsSecondQuery(arm) == arm \in {"Range", "Enum", "Composite"}

\* SELECT ... FROM pg_type WHERE oid = $1 OR typname ILIKE $2, fetch_optional:
\* one of $1, $2 is NULL.  No reference drawn here matches more than one row.
FindRow(ref) ==
    LET hits == {r \in PgTypeRows :
                    \/ ref.t = "Oid" /\ r.oid = ref.v
                    \/ ref.t = "Name" /\ ILike(r.typname, ref.v)}
    IN  IF hits = {} THEN NoRow ELSE CHOOSE r \in hits : TRUE

PgType(r, kind) == [oid |-> r.oid, name |-> r.typname, kind |-> kind]

\* The descriptor of the arms that need no further query.
DirectType(r) ==
    LET arm == Dispatch(r)
    IN  CASE arm = "Domain" -> PgType(r, [k |-> "Domain", base |-> r.typbasetype])
          [] arm = "Array" -> PgType(r, [k |-> "Array", elem |-> r.typelem])
          [] arm = "Pseudo" -> PgType(r, [k |-> "Pseudo"])
          [] OTHER -> PgType(r, [k |-> "Simple"])

\* fetch_enum_by_oid, fetch_composite_by_oid, fetch_range_by_oid once their query
\* is answered: fetch_all cannot fail for want of rows, fetch_one can.
SecondResult(r, ranges) ==
    LET arm == Dispatch(r)
        rr == {x \in ranges : x.rngtypid = r.oid}
    IN  CASE arm = "Enum" ->
                [kind |-> "Ok", ty |-> PgType(r, [k |-> "Enum", variants |-> PgEnum(r.oid)])]
          [] arm = "Composite" ->
                [kind |-> "Ok",
                 ty |-> PgType(r, [k |-> "Composite", fields |-> PgAttribute(r.typrelid)])]
          [] OTHER ->
                IF rr = {} THEN [kind |-> "RowNotFound"]
                ELSE [kind |-> "Ok",
                      ty |-> PgType(r, [k |-> "Range",
                                        elem |-> (CHOOSE x \in rr : TRUE).rngsubtype])]

(***************************************************************************)
(* maybe_fetch_type_info_by_oid and fetch_declared.                        *)
(***************************************************************************)
\* The bookkeeping counters stop counting at MaxCount.
MaxCount == 3
Bump(x) == IF x < MaxCount THEN x + 1 ELSE x

NoRes == [kind |-> "None", oid |-> 0, nested |-> FALSE, who |-> NoRef, sess |-> "none"]
NoCall == [oid |-> 0, cached |-> "None", c0 |-> "Undeclared", unf0 |-> 0]
NoStats ==
    [queries |-> [r \in AllRefs |-> 0],   \* pg_type queries per reference
     inserts |-> [o \in Oids |-> 0],      \* insert_type calls per OID
     nq |-> 0,                            \* catalog queries issued by this call
     rounds |-> 0,                        \* completed drains of the worklist
     left |-> 0,                          \* worklist entries not looked up at session end
     dberr |-> FALSE,                     \* a query of this call failed in transport
     nested |-> {}]                       \* OIDs nested calls asked for and did not get

\* Classify with the cache hit ignored: a Fetched OID is queued like an unknown one.
Classify_NoCacheHit(unf, c, o) ==
    CASE c = "Missing" -> [ret |-> unf = <<>>, cached |-> "ErrMissing", wl |-> unf]
      [] OTHER -> [ret |-> FALSE, cached |-> "None", wl |-> Append(unf, Oid(o))]

\* Classify with the Missing arm dropped: a Missing OID is queued for another lookup.
Classify_RetryMissing(unf, c, o) ==
    CASE c = "Fetched" -> [ret |-> unf = <<>>, cached |-> "Ok", wl |-> unf]
      [] OTHER -> [ret |-> FALSE, cached |-> "None", wl |-> Append(unf, Oid(o))]

\* The match on `cached`: an early return when the OID is cached (or known to be
\* missing) and nothing is pending; else what `cached` and `unfetched` become.
Classify(unf, c, o) ==
    CASE c = "Fetched" -> [ret |-> unf = <<>>, cached |-> "Ok", wl |-> unf]
      [] c = "Missing" -> [ret |-> unf = <<>>, cached |-> "ErrMissing", wl |-> unf]
      [] OTHER -> [ret |-> FALSE, cached |-> "None", wl |-> Append(unf, Oid(o))]

\* The tail of the call: `cached`, or else a fresh lookup, decides the result.
FinalResult(cached, o, cat, nested, sess) ==
    LET resolved ==
            CASE cached = "Ok" -> "Ok"
              [] cached = "ErrMissing" -> "Err"
              [] OTHER -> IF resolve_type_info(cat, Oid(o)) = "Fetched" THEN "Ok" ELSE "Err"
    IN  [kind |-> IF resolved = "Ok" THEN "Ok" ELSE "TypeNotFound",
         oid |-> o, nested |-> nested, who |-> Oid(o), sess |-> sess]

\* The guard if the error of fetch_declared were propagated before the reset.
GuardAfterSession_SkipOnErr(fd) == fd.kind # "Ok"

\* The guard once fetch_declared has returned fd.
GuardAfterSession(fd) == FALSE

\* The for loop takes the next reference of wl and awaits its pg_type query.
IssueQuery(wl, cat, st) ==
    /\ cur' = Head(wl)
    /\ unfetched' = Tail(wl)
    /\ pc' = "pg_type"
    /\ row' = NoRow
    /\ local_catalog' = cat
    /\ stats' = [st EXCEPT !.queries[Head(wl)] = Bump(@), !.nq = Bump(@)]
    /\ res' = NoRes

\* fetch_declared has returned fd: the guard is reset and the call returns.
SessionEnd(fd, cat, st) ==
    /\ fetching_types' = GuardAfterSession(fd)
    /\ local_catalog' = cat
    /\ pc' = "idle"
    /\ cur' = NoRef
    /\ row' = NoRow
    /\ stats' = [st EXCEPT !.left = Len(unfetched)]
    /\ unfetched' = <<>>
    /\ res' = IF fd.kind # "Ok"
              THEN [kind |-> fd.kind, oid |-> call.oid, nested |-> FALSE,
                    who |-> fd.who, sess |-> "err"]
              ELSE FinalResult(call.cached, call.oid, cat, FALSE, "ok")

\* The session started without setting the guard.
FetchDeclared_NoGuard(wl, cat, st) ==
    IF wl = <<>>
    THEN SessionEnd([kind |-> "Ok"], cat, st)
    ELSE IssueQuery(wl, cat, st) /\ fetching_types' = FALSE

\* fetch_declared called with wl: an empty worklist returns Ok at once.
FetchDeclared(wl, cat, st) ==
    IF wl = <<>>
    THEN SessionEnd([kind |-> "Ok"], cat, st)
    ELSE IssueQuery(wl, cat, st) /\ fetching_types' = TRUE

\* ContinueDrain without the sweep: the loop ends after the first drain.
ContinueDrain_NoSweep(cat, st) ==
    IF unfetched # <<>>
    THEN IssueQuery(unfetched, cat, st) /\ UNCHANGED fetching_types
    ELSE SessionEnd([kind |-> "Ok"], cat, [st EXCEPT !.rounds = Bump(@)])

\* After an insert: the drain goes on, or the Unfetched references are
\* collected again, or the loop ends.
ContinueDrain(cat, st) ==
    IF unfetched # <<>>
    THEN IssueQuery(unfetched, cat, st) /\ UNCHANGED fetching_types
    ELSE LET again == get_unfetched(cat)
         IN  IF again # <<>>
             THEN /\ IssueQuery(again, cat, [st EXCEPT !.rounds = Bump(@)])
                  /\ UNCHANGED fetching_types
             ELSE SessionEnd([kind |-> "Ok"], cat, [st EXCEPT !.rounds = Bump(@)])

\* OnFetchType flagging the requested OID, not the reference that was looked up.
OnFetchType_FlagRequested(ft) ==
    CASE ft.kind = "Ok" ->
            /\ ContinueDrain(insert_type(local_catalog, ft.ty),
                             [stats EXCEPT !.inserts[ft.ty.oid] = Bump(@)])
            /\ UNCHANGED failed
      [] ft.kind = "RowNotFound" ->
            /\ SessionEnd([kind |-> "TypeNotFound", who |-> cur],
                          flag_type_as_missing(local_catalog, Oid(call.oid)), stats)
            /\ failed' = [failed EXCEPT ![cur] = @ + 1]
      [] OTHER ->
            /\ SessionEnd([kind |-> "DbError", who |-> cur], local_catalog,
                          [stats EXCEPT !.dberr = TRUE])
            /\ UNCHANGED failed

\* The match on fetch_type's result ft for the reference cur.
OnFetchType(ft) ==
    CASE ft.kind = "Ok" ->
            /\ ContinueDrain(insert_type(local_catalog, ft.ty),
                             [stats EXCEPT !.inserts[ft.ty.oid] = Bump(@)])
            /\ UNCHANGED failed
      [] ft.kind = "RowNotFound" ->
            /\ SessionEnd([kind |-> "TypeNotFound", who |-> cur],
                          flag_type_as_missing(local_catalog, cur), stats)
            /\ failed' = [failed EXCEPT ![cur] = @ + 1]
      [] OTHER ->
            /\ SessionEnd([kind |-> "DbError", who |-> cur], local_catalog,
                          [stats EXCEPT !.dberr = TRUE])
            /\ UNCHANGED failed

\* A caller asks for the type of an OID while no resolution is under way.
Call(o) ==
    /\ pc = "idle"
    /\ LET unf == get_unfetched(local_catalog)
           c == resolve_type_info(local_catalog, Oid(o))
           m == Classify(unf, c, o)
       IN  /\ call' = [oid |-> o, cached |-> m.cached, c0 |-> c, unf0 |-> Len(unf)]
           /\ IF m.ret \/ fetching_types
              THEN /\ res' = FinalResult(m.cached, o, local_catalog, FALSE, "none")
                   /\ stats' = NoStats
                   /\ UNCHANGED <<local_catalog, fetching_types, pc, unfetched, cur, row>>
              ELSE FetchDeclared(m.wl, local_catalog, NoStats)
    /\ UNCHANGED <<failed, pg_range>>
    /\ UNCHANGED nonResolverVars

\* OIDs that the descriptions of the catalog queries themselves may mention.
NestedOids == {2, 4}

\* While a catalog query of the session is awaited, reading its description asks
\* for the type of an OID: the guard is set, so nothing is fetched.
NestedCall(o) ==
    /\ pc \in {"pg_type", "second"}
    /\ fetching_types
    /\ LET unf == get_unfetched(local_catalog)
           c == resolve_type_info(local_catalog, Oid(o))
           m == Classify(unf, c, o)
       IN  /\ res' = FinalResult(m.cached, o, local_catalog, TRUE, "none")
           /\ stats' = [stats EXCEPT
                            !.nested = IF c = "Fetched" THEN @ ELSE @ \cup {o}]
    /\ UNCHANGED <<local_catalog, fetching_types, pc, call, unfetched, cur, row,
                   failed, pg_range>>
    /\ UNCHANGED nonResolverVars

\* The failed pg_type query taken for a lookup that found no row.
PgTypeError_AsNoRow ==
    /\ pc = "pg_type"
    /\ OnFetchType([kind |-> "RowNotFound"])
    /\ UNCHANGED <<call, pg_range>>
    /\ UNCHANGED nonResolverVars

\* The pg_type query for cur fails in transport.
PgTypeError ==
    /\ pc = "pg_type"
    /\ OnFetchType([kind |-> "DbError"])
    /\ UNCHANGED <<call, pg_range>>
    /\ UNCHANGED nonResolverVars

\* The pg_type query for cur is answered.
PgTypeReply ==
    /\ pc = "pg_type"
    /\ LET r == FindRow(cur)
       IN  IF r = NoRow
           THEN OnFetchType([kind |-> "RowNotFound"])
           ELSE IF NeedsSecondQuery(Dispatch(r))
           THEN /\ pc' = "second"
                /\ row' = r
                /\ stats' = [stats EXCEPT !.nq = Bump(@)]
                /\ res' = NoRes
                /\ UNCHANGED <<local_catalog, fetching_types, unfetched, cur, failed>>
           ELSE OnFetchType([kind |-> "Ok", ty |-> DirectType(r)])
    /\ UNCHANGED <<call, pg_range>>
    /\ UNCHANGED nonResolverVars

\* The pg_enum, pg_attribute or pg_range query fails in transport.
SecondError ==
    /\ pc = "second"
    /\ OnFetchType([kind |-> "DbError"])
    /\ UNCHANGED <<call, pg_range>>
    /\ UNCHANGED nonResolverVars

\* The pg_enum, pg_attribute or pg_range query is answered.
SecondReply ==
    /\ pc = "second"
    /\ OnFetchType(SecondResult(row, pg_range))
    /\ UNCHANGED <<call, pg_range>>
    /\ UNCHANGED nonResolverVars

\* References that values being encoded may declare between two resolutions.
DeclRefs == {Oid(3), Name(12), Name(10 + MaxOid), PatternRef}

Declare(r) ==
    /\ pc = "idle"
    /\ local_catalog[r] = "Undeclared"
    /\ local_catalog' = declare_type(local_catalog, r)
    /\ res' = NoRes
    /\ call' = NoCall
    /\ stats' = NoStats
    /\ UNCHANGED <<fetching_types, pc, unfetched, cur, row, failed, pg_range>>
    /\ UNCHANGED nonResolverVars

ResolverInit ==
    /\ local_catalog = [r \in AllRefs |-> "Undeclared"]
    /\ fetching_types = FALSE
    /\ pc = "idle"
    /\ call = NoCall
    /\ unfetched = <<>>
    /\ cur = NoRef
    /\ row = NoRow
    /\ res = NoRes
    /\ stats = NoStats
    /\ failed = [r \in AllRefs |-> 0]
    /\ pg_range \in {{}, PgRangeRows}

(***************************************************************************)
(* get_nullable_for_columns: the pg_attribute lookup, then (unless the     *)
(* server reports crdb_version) the patch inferred from EXPLAIN.           *)
(***************************************************************************)
MaxCols == 3

\* Option<bool>
Tri == {"None", "SomeTrue", "SomeFalse"}

Vectors(S, lo, hi) == UNION {[1 .. n -> S] : n \in lo .. hi}

\* Option::or
Or(a, b) == IF a # "None" THEN a ELSE b

\* The merge with the operands of `or` exchanged.
MergePatch_CatalogFirst(nullables, patch) ==
    [i \in 1 .. Len(nullables) |->
        IF i <= Len(patch) THEN Or(nullables[i], patch[i]) ELSE nullables[i]]

\* for (nullable, patch) in nullables.iter_mut().zip(nullable_patch)
\*     { *nullable = patch.or(*nullable) }
MergePatch(nullables, patch) ==
    [i \in 1 .. Len(nullables) |->
        IF i <= Len(patch) THEN Or(patch[i], nullables[i]) ELSE nullables[i]]

(***************************************************************************)
(* The plan of EXPLAIN (VERBOSE, FORMAT JSON): struct Plan.  An absent     *)
(* string field is "None"; an absent list is [some |-> FALSE].             *)
(***************************************************************************)
Absent == [some |-> FALSE, v |-> <<>>]
Present(list) == [some |-> TRUE, v |-> list]
Node(jt, pr, out, plans) == [jt |-> jt, pr |-> pr, out |-> out, plans |-> plans]

\* Nodes without children, the grandchildren of the plans below.
LeafPlans ==
    {Node("None", "Inner", Present(<<"b">>), Absent),
     Node("Full", "Outer", Present(<<"b">>), Absent)}

\* The children of the top node, with at most one child of their own.
ChildPlans ==
    {Node(jt, pr, out, plans) :
        jt \in {"None", "Left", "Inner"},
        pr \in {"Inner", "Outer"},
        out \in {Absent, Present(<<"a">>), Present(<<"b">>)},
        plans \in {Absent} \cup {Present(<<l>>) : l \in LeafPlans}}

\* The Output lists of the top node: absent, empty, and lists shorter and
\* longer than the statement's columns, with and without a repeated name.
TopOutputs ==
    {Absent, Present(<<>>), Present(<<"a", "b">>), Present(<<"a", "a">>),
     Present(<<"b", "a", "b">>), Present(<<"a", "b", "a", "b">>)}

Plans ==
    {Node(jt, "None", out, plans) :
        jt \in {"None", "Left", "Right", "Full"},
        out \in TopOutputs,
        plans \in {Absent} \cup {Present(<<c>>) : c \in ChildPlans}
                  \cup {Present(<<c, d>>) : c \in LeafPlans, d \in LeafPlans}}

\* plan.join_type.as_deref().or(plan.parent_relation.as_deref())
Classification(plan) == IF plan.jt # "None" THEN plan.jt ELSE plan.pr

\* outputs.iter().position(|o| o == output); 0 stands for None
Position(outputs, output) ==
    IF \E i \in 1 .. Len(outputs) : outputs[i] = output
    THEN CHOOSE i \in 1 .. Len(outputs) :
            /\ outputs[i] = output
            /\ \A j \in 1 .. (i - 1) : outputs[j] # output
    ELSE 0

\* The marking loop writing Some(false).
MarkOutputs_SomeFalse(plan_outputs, outputs, nullables) ==
    [i \in 1 .. Len(nullables) |->
        IF \E k \in 1 .. Len(plan_outputs) : Position(outputs, plan_outputs[k]) = i
        THEN "SomeFalse"
        ELSE nullables[i]]

\* for output in plan_outputs { if let Some(i) = position { nullables[i] = Some(true) } }
MarkOutputs(plan_outputs, outputs, nullables) ==
    [i \in 1 .. Len(nullables) |->
        IF \E k \in 1 .. Len(plan_outputs) : Position(outputs, plan_outputs[k]) = i
        THEN "SomeTrue"
        ELSE nullables[i]]

RECURSIVE visit_plan(_, _, _)
RECURSIVE VisitPlans(_, _, _)

\* for plan in plans { visit_plan(plan, outputs, nullables) }
VisitPlans(plans, outputs, nullables) ==
    IF plans = <<>>
    THEN nullables
    ELSE VisitPlans(Tail(plans), outputs, visit_plan(Head(plans), outputs, nullables))

\* The traversal descending into the children of every node.
visit_plan_DescendAlways(plan, outputs, nullables) ==
    LET marked == IF plan.out.some /\ Classification(plan) \in {"Full", "Inner"}
                  THEN MarkOutputs(plan.out.v, outputs, nullables)
                  ELSE nullables
    IN  IF plan.plans.some
        THEN VisitPlans(plan.plans.v, outputs, marked)
        ELSE marked

visit_plan(plan, outputs, nullables) ==
    LET marked == IF plan.out.some /\ Classification(plan) \in {"Full", "Inner"}
                  THEN MarkOutputs(plan.out.v, outputs, nullables)
                  ELSE nullables
    IN  IF plan.plans.some /\ plan.jt \in {"Left", "Right"}
        THEN VisitPlans(plan.plans.v, outputs, marked)
        ELSE marked

\* nullables_from_explain, after the explain query answered with plan
nullables_from_explain(plan) ==
    IF plan.out.some
    THEN visit_plan(plan, plan.out.v, [i \in 1 .. Len(plan.out.v) |-> "None"])
    ELSE <<>>

NoPlan == Node("None", "None", Absent, Absent)
NoQueries == [attribute |-> 0, explain |-> 0]

NullableIdle ==
    /\ nq_n = 0
    /\ nq_cols = <<>>
    /\ nq_patch = <<>>
    /\ nq_crdb = FALSE
    /\ nq_out = <<>>
    /\ nq_pc = "idle"
    /\ nq_plan = NoPlan
    /\ nq_stat = NoQueries

\* get_nullable_for_columns is called for a statement of n columns.
NqCall(n, crdb) ==
    /\ nq_pc = "idle"
    /\ nq_n' = n
    /\ nq_crdb' = crdb
    /\ nq_cols' = <<>>
    /\ nq_patch' = <<>>
    /\ nq_out' = <<>>
    /\ nq_plan' = NoPlan
    /\ IF n = 0
       THEN nq_pc' = "done" /\ nq_stat' = NoQueries
       ELSE nq_pc' = "attribute" /\ nq_stat' = [NoQueries EXCEPT !.attribute = 1]
    /\ UNCHANGED nonNullableVars

\* The pg_attribute query fails: the error is returned.
NqAttributeError ==
    /\ nq_pc = "attribute"
    /\ nq_pc' = "failed"
    /\ UNCHANGED <<nq_n, nq_crdb, nq_cols, nq_patch, nq_out, nq_plan, nq_stat>>
    /\ UNCHANGED nonNullableVars

\* The pg_attribute reply handled without the crdb_version test.
NqAttributeReply_AlwaysExplain(v) ==
    /\ nq_pc = "attribute"
    /\ Len(v) = nq_n
    /\ nq_cols' = v
    /\ nq_out' = <<>>
    /\ nq_pc' = "explain"
    /\ nq_stat' = [nq_stat EXCEPT !.explain = @ + 1]
    /\ UNCHANGED <<nq_n, nq_crdb, nq_patch, nq_plan>>
    /\ UNCHANGED nonNullableVars

\* The pg_attribute query answers with one row per column.
NqAttributeReply(v) ==
    /\ nq_pc = "attribute"
    /\ Len(v) = nq_n
    /\ nq_cols' = v
    /\ IF nq_crdb
       THEN nq_out' = v /\ nq_pc' = "done" /\ UNCHANGED nq_stat
       ELSE /\ nq_out' = <<>>
            /\ nq_pc' = "explain"
            /\ nq_stat' = [nq_stat EXCEPT !.explain = @ + 1]
    /\ UNCHANGED <<nq_n, nq_crdb, nq_patch, nq_plan>>
    /\ UNCHANGED nonNullableVars

\* The explain query fails: the error is returned.
NqExplainError ==
    /\ nq_pc = "explain"
    /\ nq_pc' = "failed"
    /\ UNCHANGED <<nq_n, nq_crdb, nq_cols, nq_patch, nq_out, nq_plan, nq_stat>>
    /\ UNCHANGED nonNullableVars

\* The merge collecting the zipped pairs: the result ends with the shorter vector.
NqExplainReply_Truncate(plan) ==
    /\ nq_pc = "explain"
    /\ nq_plan' = plan
    /\ nq_patch' = nullables_from_explain(plan)
    /\ nq_out' = LET patch == nullables_from_explain(plan)
                     n == IF Len(patch) < Len(nq_cols) THEN Len(patch) ELSE Len(nq_cols)
                 IN  SubSeq(MergePatch(nq_cols, patch), 1, n)
    /\ nq_pc' = "done"
    /\ UNCHANGED <<nq_n, nq_crdb, nq_cols, nq_stat>>
    /\ UNCHANGED nonNullableVars

\* The explain query answers with plan; nullables_from_explain returns the
\* patch and the two vectors are merged.
NqExplainReply(plan) ==
    /\ nq_pc = "explain"
    /\ nq_plan' = plan
    /\ nq_patch' = nullables_from_explain(plan)
    /\ nq_out' = MergePatch(nq_cols, nullables_from_explain(plan))
    /\ nq_pc' = "done"
    /\ UNCHANGED <<nq_n, nq_crdb, nq_cols, nq_stat>>
    /\ UNCHANGED nonNullableVars

\* The caller takes the result or the error.
NqReturn ==
    /\ nq_pc \in {"done", "failed"}
    /\ nq_pc' = "idle"
    /\ nq_n' = 0
    /\ nq_cols' = <<>>
    /\ nq_patch' = <<>>
    /\ nq_out' = <<>>
    /\ nq_crdb' = FALSE
    /\ nq_plan' = NoPlan
    /\ nq_stat' = NoQueries
    /\ UNCHANGED nonNullableVars

NextNullable ==
    \/ \E n \in 0 .. MaxCols, crdb \in BOOLEAN : NqCall(n, crdb)
    \/ NqAttributeError
    \/ \E v \in Vectors(Tri, 1, MaxCols) : NqAttributeReply(v)
    \/ NqExplainError
    \/ \E plan \in Plans : NqExplainReply(plan)
    \/ NqReturn

(***************************************************************************)
(* The record decoder (postgres/types/record.rs).  A buffer is a sequence   *)
(* of bytes, a text value the sequence of its characters' codes.            *)
(***************************************************************************)
MaxText == 3
MaxFields == 2
MaxCalls == 3

LParen == 40
RParen == 41
Comma == 44
Quote == 34
Backslash == 92
Nul == 0

Drop(buf, n) == SubSeq(buf, n + 1, Len(buf))
Take(buf, n) == SubSeq(buf, 1, n)

\* u32::to_be_bytes / i32::to_be_bytes of a small number; -1 is ff ff ff ff
U32BE(n) ==
    IF n < 0
    THEN <<255, 255, 255, 256 + n>>
    ELSE <<(n \div 16777216) % 256, (n \div 65536) % 256, (n \div 256) % 256, n % 256>>

\* Buf::get_u32 on a buffer of at least four bytes: the number read
U32Of(buf) == buf[1] * 16777216 + buf[2] * 65536 + buf[3] * 256 + buf[4]

\* Buf::get_i32
I32Of(buf) ==
    (IF buf[1] >= 128 THEN buf[1] - 256 ELSE buf[1]) * 16777216
        + buf[2] * 65536 + buf[3] * 256 + buf[4]

\* The types of the values decoded: the generic RECORD, two composites with their
\* declared field types, and a type that is neither.
RecordType == [kind |-> "Record", fields |-> <<>>]
CompositeType(fields) == [kind |-> "Composite", fields |-> fields]
OtherType == [kind |-> "Simple", fields |-> <<>>]
FieldOids == {1, 2}
WireOids == {1, 2, 3}
RecordTypes == {RecordType, CompositeType(<<1>>), CompositeType(<<1, 2>>)}

\* One field on the wire: its type OID and its element, NULL or bytes.
NullElement == [null |-> TRUE, bytes |-> <<>>]
Element(bytes) == [null |-> FALSE, bytes |-> bytes]
WireFields == [oid : WireOids, el : {NullElement, Element(<<7>>)}]

\* The element as PgValueRef::get reads it back: a length, -1 for NULL, and the bytes.
ElementBytes(el) == IF el.null THEN U32BE(-1) ELSE U32BE(Len(el.bytes)) \o el.bytes

RECURSIVE FieldsBytes(_)
FieldsBytes(fs) ==
    IF fs = <<>> THEN <<>>
    ELSE U32BE(Head(fs).oid) \o ElementBytes(Head(fs).el) \o FieldsBytes(Tail(fs))

\* The binary record of the wire format: [u32 field count] then the fields.
BinaryRecord(fs) == U32BE(Len(fs)) \o FieldsBytes(fs)

PgValue(format, typ, bytes) == [format |-> format, typ |-> typ, bytes |-> bytes]

\* Values of other types, one to eight bytes long, and the empty value.
PlainValues ==
    {<<>>, <<1>>, <<0, 5>>, <<0, 0, 0, 5>>, <<97, 98, 99, 100, 101, 102>>,
     <<0, 0, 0, 0, 0, 0, 0, 9>>}

BinaryValues ==
    {PgValue("Binary", typ, BinaryRecord(fs)) :
        typ \in RecordTypes, fs \in Vectors(WireFields, 0, MaxFields)}
    \cup {PgValue("Binary", typ, bytes) : typ \in {OtherType, RecordType}, bytes \in PlainValues}

\* The characters of the text records drawn: 1 a , " \ and e-acute (Latin-1).
TextAlphabet == {49, 97, Comma, Quote, Backslash, 233}

\* ( 1 , " a , b " , )
QuotedCommaRecord == <<LParen, 49, Comma, Quote, 97, Comma, 98, Quote, Comma, RParen>>

\* ( \ " " a " )
EscapedQuoteRecord == <<LParen, Backslash, Quote, Quote, 97, Quote, RParen>>

\* Fields without quote, backslash or comma, around the bounds of the byte range:
\* NUL, DEL, 0x80, 0xFF and the UTF-8 bytes of U+00E9
PlainFields == {<<0>>, <<127>>, <<128>>, <<255>>, <<195, 169>>}

TextValues ==
    {PgValue("Text", typ, <<LParen>> \o body \o <<RParen>>) :
        typ \in {RecordType}, body \in Vectors(TextAlphabet, 0, MaxText)}
    \cup {PgValue("Text", RecordType, <<LParen>> \o f \o rest \o <<RParen>>) :
              f \in PlainFields, rest \in {<<>>, <<Comma, 97>>}}
    \cup {PgValue("Text", RecordType, bytes) :
              bytes \in {<<>>, <<LParen>>, QuotedCommaRecord, EscapedQuoteRecord}}

UnknownOid == 705

\* The OIDs the decoder's catalog handle resolves.
DecKnownOids == {1, 2}

\* What a try_decode call returns: the value handed to T::decode with its type,
\* an error, or no return at all (a panic).
ValueRes(el, ty) == [k |-> "Value", why |-> "", null |-> el.null, bytes |-> el.bytes, ty |-> ty]
ErrRes(why) == [k |-> "Err", why |-> why, null |-> FALSE, bytes |-> <<>>, ty |-> 0]
PanicRes == [k |-> "Panic", why |-> "", null |-> FALSE, bytes |-> <<>>, ty |-> 0]

\* A try_decode call's effect: what it returns, and the decoder's buf and ind after it.
Outcome(r, buf, ind) == [r |-> r, buf |-> buf, ind |-> ind]

\* T::compatible(&element_type), for a target type T that accepts the type of OID t
Compatible(t, ty) == t = ty

\* PgValueRef::get: the element's length (-1: NULL) and that many bytes
PgValueRefGet(buf, t, ty, ind) ==
    IF Len(buf) < 4 THEN Outcome(PanicRes, buf, ind)
    ELSE LET len == I32Of(buf)
             rest == Drop(buf, 4)
         IN  IF len < 0 THEN Outcome(ValueRes(NullElement, ty), rest, ind)
             ELSE IF Len(rest) < len THEN Outcome(PanicRes, rest, ind)
             ELSE Outcome(ValueRes(Element(Take(rest, len)), ty), Drop(rest, len), ind)

\* try_decode, binary format: the part after the element type is settled
DecodeElement(buf, t, ty, ind) ==
    IF ~Compatible(t, ty)
    THEN Outcome(ErrRes("mismatched types"), buf, ind + 1)
    ELSE PgValueRefGet(buf, t, ty, ind + 1)

\* try_decode, binary format (record.rs 106-159); ind counts from 0
TryDecodeBinary(typ, buf, ind, t) ==
    IF buf = <<>> THEN Outcome(ErrRes("no field"), buf, ind)
    ELSE IF Len(buf) < 4 THEN Outcome(PanicRes, buf, ind)
    ELSE LET element_type_oid == U32Of(buf)
             rest == Drop(buf, 4)
         IN  CASE typ.kind = "Record" ->
                    IF element_type_oid \in DecKnownOids
                    THEN DecodeElement(rest, t, element_type_oid, ind)
                    ELSE Outcome(ErrRes("unresolved record element type"), rest, ind)
               [] typ.kind = "Composite" ->
                    IF ind >= Len(typ.fields)
                    THEN Outcome(PanicRes, rest, ind)
                    ELSE IF typ.fields[ind + 1] # element_type_oid
                    THEN Outcome(ErrRes("composite type mismatch"), rest, ind)
                    ELSE DecodeElement(rest, t, typ.fields[ind + 1], ind)
               [] OTHER -> Outcome(ErrRes("non-composite type"), rest, ind)

\* String::push(ch as char) as the bytes of the string: a byte above 0x7f is the
\* code point of that number, two bytes in UTF-8
PushChar(element, ch) ==
    IF ch < 128 THEN Append(element, ch)
    ELSE element \o <<192 + (ch \div 64), 128 + (ch % 64)>>

TextStart ==
    [element |-> <<>>, quoted |-> FALSE, in_quotes |-> FALSE, in_escape |-> FALSE,
     prev_ch |-> Nul, buf |-> <<>>]

RECURSIVE TextLoop(_, _)
\* while !self.buf.is_empty() { let ch = self.buf.get_u8() as char; match ch ... }
TextLoop(buf, st) ==
    IF buf = <<>> THEN [st EXCEPT !.buf = buf]
    ELSE LET ch == Head(buf)
             rest == Tail(buf)
         IN  IF st.in_escape
             THEN TextLoop(rest, [st EXCEPT !.element = PushChar(@, ch),
                                            !.in_escape = FALSE, !.prev_ch = ch])
             ELSE IF ch = Quote /\ st.in_quotes
             THEN TextLoop(rest, [st EXCEPT !.in_quotes = FALSE, !.prev_ch = ch])
             ELSE IF ch = Quote
             THEN TextLoop(rest, [st EXCEPT !.in_quotes = TRUE, !.quoted = TRUE,
                                            !.element = IF st.prev_ch = Quote
                                                        THEN PushChar(@, Quote) ELSE @,
                                            !.prev_ch = ch])
             ELSE IF ch = Backslash
             THEN TextLoop(rest, [st EXCEPT !.in_escape = TRUE, !.prev_ch = ch])
             ELSE IF ch = Comma /\ ~st.in_quotes
             THEN [st EXCEPT !.buf = rest]
             ELSE TextLoop(rest, [st EXCEPT !.element = PushChar(@, ch), !.prev_ch = ch])

\* try_decode, text format (record.rs 106-108, 161-227)
TryDecodeText(buf, ind) ==
    IF buf = <<>> THEN Outcome(ErrRes("no field"), buf, ind)
    ELSE LET st == TextLoop(buf, TextStart)
         IN  IF st.element = <<>> /\ ~st.quoted
             THEN Outcome(ValueRes(NullElement, UnknownOid), st.buf, ind)
             ELSE Outcome(ValueRes(Element(st.element), UnknownOid), st.buf, ind)

NoValue == PgValue("None", OtherType, <<>>)

DecoderIdle ==
    /\ dec_pc = "idle"
    /\ dec_value = NoValue
    /\ dec_buf = <<>>
    /\ dec_ind = 0
    /\ dec_out = <<>>

\* PgRecordDecoder::new(value)
DecNew(value) ==
    /\ dec_pc = "idle"
    /\ dec_value' = value
    /\ dec_ind' = 0
    /\ dec_out' = <<>>
    /\ IF value.format = "Binary"
       THEN IF Len(value.bytes) < 4
            THEN dec_pc' = "panicked" /\ dec_buf' = value.bytes
            ELSE dec_pc' = "ready" /\ dec_buf' = Drop(value.bytes, 4)
       ELSE IF Len(value.bytes) < 2
            THEN dec_pc' = "panicked" /\ dec_buf' = value.bytes
            ELSE dec_pc' = "ready" /\ dec_buf' = SubSeq(value.bytes, 2, Len(value.bytes) - 1)
    /\ UNCHANGED nonDecoderVars

\* decoder.try_decode::<T>() by a caller that stops at the first error, as the
\* tuple decoders do; T accepts the type of OID t.
TryDecode(t) ==
    /\ dec_pc = "ready"
    /\ Len(dec_out) < MaxCalls
    /\ LET o == IF dec_value.format = "Binary"
                THEN TryDecodeBinary(dec_value.typ, dec_buf, dec_ind, t)
                ELSE TryDecodeText(dec_buf, dec_ind)
       IN  /\ dec_out' = Append(dec_out, o.r)
           /\ dec_buf' = o.buf
           /\ dec_ind' = o.ind
           /\ dec_pc' = CASE o.r.k = "Value" -> "ready"
                          [] o.r.k = "Err" -> "failed"
                          [] OTHER -> "panicked"
    /\ UNCHANGED dec_value
    /\ UNCHANGED nonDecoderVars

NextDecoder ==
    \/ \E value \in BinaryValues \cup TextValues : DecNew(value)
    \/ \E t \in FieldOids : TryDecode(t)

(***************************************************************************)
(* The record encoder (postgres/types/record.rs).                          *)
(***************************************************************************)
MaxEncodes == 3

\* What is in the argument buffer before the record: nothing, or earlier arguments.
EarlierBytes == {<<>>, <<9>>, <<0, 0, 0, 1, 9>>}

\* value.produces().unwrap_or_else(T::type_info): a reference by name, a reference
\* by OID, or a fetched type.
EncTypes == {[t |-> "Name", v |-> 11], [t |-> "Oid", v |-> 1], [t |-> "Fetched", v |-> 2]}
EncValues == {NullElement, Element(<<7>>), Element(<<7, 8>>)}

\* Overwriting buf[at .. at + Len(bytes)], offsets counted from 0
WriteAt(buf, at, bytes) ==
    [i \in 1 .. Len(buf) |->
        IF i > at /\ i <= at + Len(bytes) THEN bytes[i - at] ELSE buf[i]]

EncoderIdle ==
    /\ enc_pc = "idle"
    /\ enc_buf = <<>>
    /\ enc_holes = {}
    /\ enc_off = 0
    /\ enc_num = 0
    /\ enc_before = <<>>
    /\ enc_log = <<>>

\* PgRecordEncoder::new(buf)
EncNew(earlier) ==
    /\ enc_pc = "idle"
    /\ enc_before' = earlier
    /\ enc_off' = Len(earlier)
    /\ enc_buf' = earlier \o U32BE(0)
    /\ enc_num' = 0
    /\ enc_holes' = {}
    /\ enc_log' = <<>>
    /\ enc_pc' = "open"
    /\ UNCHANGED nonEncoderVars

\* encoder.encode(value) for a value of type ty
EncEncode(ty, value) ==
    /\ enc_pc = "open"
    /\ enc_num < MaxEncodes
    /\ IF ty.t = "Name"
       THEN /\ enc_holes' = enc_holes \cup {[at |-> Len(enc_buf), name |-> ty.v]}
            /\ enc_buf' = enc_buf \o U32BE(0) \o ElementBytes(value)
       ELSE /\ enc_holes' = enc_holes
            /\ enc_buf' = enc_buf \o U32BE(ty.v) \o ElementBytes(value)
    /\ enc_num' = enc_num + 1
    /\ enc_log' = Append(enc_log, [ty |-> ty, value |-> value, at |-> Len(enc_buf)])
    /\ UNCHANGED <<enc_pc, enc_off, enc_before>>
    /\ UNCHANGED nonEncoderVars

\* finish writing the count at the start of the buffer.
EncFinish_AtStart ==
    /\ enc_pc = "open"
    /\ enc_buf' = WriteAt(enc_buf, 0, U32BE(enc_num))
    /\ enc_pc' = "finished"
    /\ UNCHANGED <<enc_holes, enc_off, enc_num, enc_before, enc_log>>
    /\ UNCHANGED nonEncoderVars

\* encoder.finish()
EncFinish ==
    /\ enc_pc = "open"
    /\ enc_buf' = WriteAt(enc_buf, enc_off, U32BE(enc_num))
    /\ enc_pc' = "finished"
    /\ UNCHANGED <<enc_holes, enc_off, enc_num, enc_before, enc_log>>
    /\ UNCHANGED nonEncoderVars

NextEncoder ==
    \/ \E earlier \in EarlierBytes : EncNew(earlier)
    \/ \E ty \in EncTypes, value \in EncValues : EncEncode(ty, value)
    \/ EncFinish

(***************************************************************************)
(* The scalar codecs (postgres/types/{int,bool,float,bytes,json,tuple}.rs). *)
(* An i8, i16 or i32 is the integer; an i64 is its four 16-bit digits, the  *)
(* first one signed; a float is one of a few values given with its text and *)
(* its IEEE bits; a JSON document is its serialized bytes.                  *)
(***************************************************************************)
Pow256(k) == CASE k = 0 -> 1 [] k = 1 -> 256 [] k = 2 -> 65536 [] OTHER -> 16777216

\* The bytes in the opposite order, least significant first.
ToLeBytes(v, w) == [i \in 1 .. w |-> (v \div Pow256(i - 1)) % 256]

\* iN::to_be_bytes for a width of w <= 4 bytes: two's complement, most significant first
ToBeBytes(v, w) == [i \in 1 .. w |-> (v \div Pow256(w - i)) % 256]

\* The unsigned number of w <= 2 big-endian bytes
UnsignedOf(bytes, w) == IF w = 1 THEN bytes[1] ELSE bytes[1] * 256 + bytes[2]

\* BigEndian::read_iN on a slice of at least w <= 4 bytes
ReadSigned(bytes, w) ==
    LET top == IF bytes[1] >= 128 THEN bytes[1] - 256 ELSE bytes[1]
        lower(i) == bytes[i] * Pow256(w - i)
    IN  top * Pow256(w - 1)
          + (IF w >= 2 THEN lower(2) ELSE 0)
          + (IF w >= 3 THEN lower(3) ELSE 0)
          + (IF w >= 4 THEN lower(4) ELSE 0)

\* i64::to_be_bytes
I64ToBeBytes(d) ==
    ToBeBytes(d[1], 2) \o ToBeBytes(d[2], 2) \o ToBeBytes(d[3], 2) \o ToBeBytes(d[4], 2)

\* BigEndian::read_i64
ReadI64(bytes) ==
    <<ReadSigned(SubSeq(bytes, 1, 2), 2), UnsignedOf(SubSeq(bytes, 3, 4), 2),
      UnsignedOf(SubSeq(bytes, 5, 6), 2), UnsignedOf(SubSeq(bytes, 7, 8), 2)>>

\* An i64 of the i32 range as its digits, and back
I64OfInt(v) == <<IF v < 0 THEN -1 ELSE 0, IF v < 0 THEN 65535 ELSE 0,
                 (v \div 65536) % 65536, v % 65536>>
IntOfI64(d) == (IF d[3] >= 32768 THEN d[3] - 65536 ELSE d[3]) * 65536 + d[4]

Ok(v) == [k |-> "Ok", v |-> v]
Err == [k |-> "Err", v |-> <<>>]
Panic == [k |-> "Panic", v |-> <<>>]

Width(ty) == CASE ty = "bool" -> 1 [] ty = "i8" -> 1 [] ty = "i16" -> 2
               [] ty = "i32" -> 4 [] ty = "f32" -> 4 [] OTHER -> 8

\* The values drawn, the boundaries of each width among them.
I8Values == -128 .. 127
I16Values == {-32768, -32767, -257, -256, -255, -129, -128, -1, 0, 1, 127, 128, 255,
              256, 257, 32766, 32767}
I32Values == {-2147483647 - 1, -2147483647, -16777217, -16777216, -65537, -65536,
              -32769, -32768, -256, -1, 0, 1, 255, 256, 65535, 65536, 16777215,
              16777216, 2147483646, 2147483647}
I64Values ==
    {<<-32768, 0, 0, 0>>, <<-32768, 0, 0, 1>>, <<-1, 65535, 65535, 65535>>,
     <<-1, 65535, 0, 0>>, <<-1, 0, 65535, 65535>>, <<0, 0, 0, 0>>, <<0, 0, 0, 1>>,
     <<0, 0, 0, 256>>, <<0, 0, 1, 0>>, <<0, 0, 65535, 65535>>, <<0, 1, 0, 0>>,
     <<1, 0, 0, 0>>, <<255, 255, 255, 255>>, <<32767, 65535, 65535, 65534>>,
     <<32767, 65535, 65535, 65535>>}

\* f32 and f64 values: 0, 1.5, -2 and NaN, each with the text the server prints
\* and its IEEE 754 bits.
FloatValues ==
    {[text |-> <<48>>, bits32 |-> <<0, 0, 0, 0>>, bits64 |-> <<0, 0, 0, 0, 0, 0, 0, 0>>],
     [text |-> <<49, 46, 53>>, bits32 |-> <<63, 192, 0, 0>>,
      bits64 |-> <<63, 248, 0, 0, 0, 0, 0, 0>>],
     [text |-> <<45, 50>>, bits32 |-> <<192, 0, 0, 0>>,
      bits64 |-> <<192, 0, 0, 0, 0, 0, 0, 0>>],
     [text |-> <<78, 97, 78>>, bits32 |-> <<127, 192, 0, 0>>,
      bits64 |-> <<127, 248, 0, 0, 0, 0, 0, 0>>]}

ByteStrings == {<<>>, <<0>>, <<222, 173>>, <<255, 16, 10>>}

\* Serialized JSON documents: 1, null, [1] and {}
JsonDocs == {<<49>>, <<110, 117, 108, 108>>, <<91, 49, 93>>, <<123, 125>>}

TupleValues == [a : {-1, 0, 70000}, b : BOOLEAN]

RustType(rust, wire) == [rust |-> rust, wire |-> wire]

\* The types with a Decode impl, and for Json the two wire types it is read from.
CodecTypes ==
    {RustType(r, "") : r \in {"bool", "i8", "i16", "i32", "i64", "f32", "f64",
                              "Vec<u8>", "&[u8]", "tuple"}}
    \cup {RustType("Json", w) : w \in {"json", "jsonb"}}

\* Those with an Encode impl in these files.
EncodableTypes == {ty \in CodecTypes : ty.rust # "tuple"}

ValuesOf(rust) ==
    CASE rust = "bool" -> BOOLEAN
      [] rust = "i8" -> I8Values
      [] rust = "i16" -> I16Values
      [] rust = "i32" -> I32Values
      [] rust = "i64" -> I64Values \cup {I64OfInt(v) : v \in I32Values}
      [] rust \in {"f32", "f64"} -> FloatValues
      [] rust \in {"Vec<u8>", "&[u8]"} -> ByteStrings
      [] rust = "Json" -> JsonDocs
      [] OTHER -> TupleValues

\* Values the server sends as text; the i64 values are those of the i32 range.
TextValuesOf(rust) ==
    IF rust = "i64" THEN {I64OfInt(v) : v \in I32Values} ELSE ValuesOf(rust)

\* Encode::encode_by_ref
Encode(ty, v) ==
    CASE ty.rust = "bool" -> <<IF v THEN 1 ELSE 0>>
      [] ty.rust = "i8" -> ToBeBytes(v, 1)
      [] ty.rust = "i16" -> ToBeBytes(v, 2)
      [] ty.rust = "i32" -> ToBeBytes(v, 4)
      [] ty.rust = "i64" -> I64ToBeBytes(v)
      [] ty.rust = "f32" -> v.bits32
      [] ty.rust = "f64" -> v.bits64
      [] ty.rust = "Json" -> <<1>> \o v
      [] OTHER -> v

RECURSIVE Digits(_)
Digits(n) == (IF n < 10 THEN <<>> ELSE Digits(n \div 10)) \o <<48 + (n % 10)>>

RECURSIVE NegDigits(_)
NegDigits(v) ==
    LET d == (10 - (v % 10)) % 10
        q == (v + d) \div 10
    IN  (IF q = 0 THEN <<>> ELSE NegDigits(q)) \o <<48 + d>>

\* The decimal text of an integer
IntText(v) == IF v < 0 THEN <<45>> \o NegDigits(v) ELSE Digits(v)

HexDigit(n) == IF n < 10 THEN 48 + n ELSE 87 + n

RECURSIVE HexText(_)
HexText(bytes) ==
    IF bytes = <<>> THEN <<>>
    ELSE <<HexDigit(Head(bytes) \div 16), HexDigit(Head(bytes) % 16)>> \o HexText(Tail(bytes))

\* The text the server sends for a value
TextOf(ty, v) ==
    CASE ty.rust = "bool" -> <<IF v THEN 116 ELSE 102>>
      [] ty.rust = "i8" -> IF v = 0 THEN <<>> ELSE <<v % 256>>
      [] ty.rust \in {"i16", "i32"} -> IntText(v)
      [] ty.rust = "i64" -> IntText(IntOfI64(v))
      [] ty.rust \in {"f32", "f64"} -> v.text
      [] ty.rust \in {"Vec<u8>", "&[u8]"} -> <<Backslash, 120>> \o HexText(v)
      [] ty.rust = "Json" -> v
      [] OTHER -> <<LParen>> \o IntText(v.a) \o <<Comma, IF v.b THEN 116 ELSE 102, RParen>>

\* The binary value the server sends
BinaryOf(ty, v) ==
    CASE ty.rust = "Json" -> IF ty.wire = "jsonb" THEN <<1>> \o v ELSE v
      [] ty.rust = "tuple" ->
            BinaryRecord(<<[oid |-> 1, el |-> Element(ToBeBytes(v.a, 4))],
                           [oid |-> 2, el |-> Element(<<IF v.b THEN 1 ELSE 0>>)]>>)
      [] OTHER -> Encode(ty, v)

RECURSIVE ParseDigits(_, _, _, _)
\* The digit loop of str::parse for an integer of the range lo .. hi; a negative
\* number is accumulated downwards, as the standard library does.
ParseDigits(chars, acc, neg, range) ==
    IF chars = <<>> THEN Ok(acc)
    ELSE LET d == Head(chars) - 48
         IN  IF d < 0 \/ d > 9 THEN Err
             ELSE IF neg
             THEN IF acc < (range.lo + d + 9) \div 10 THEN Err
                  ELSE ParseDigits(Tail(chars), acc * 10 - d, neg, range)
             ELSE IF acc > (range.hi - d) \div 10 THEN Err
                  ELSE ParseDigits(Tail(chars), acc * 10 + d, neg, range)

\* value.as_str()?.parse() for an integer
ParseInt(chars, range) ==
    IF chars = <<>> THEN Err
    ELSE IF Head(chars) \in {43, 45}
    THEN IF Tail(chars) = <<>> THEN Err
         ELSE ParseDigits(Tail(chars), 0, Head(chars) = 45, range)
    ELSE ParseDigits(chars, 0, FALSE, range)

I16Range == [lo |-> -32768, hi |-> 32767]
I32Range == [lo |-> -2147483647 - 1, hi |-> 2147483647]

HexVal(c) ==
    IF c \in 48 .. 57 THEN c - 48
    ELSE IF c \in 97 .. 102 THEN c - 87
    ELSE IF c \in 65 .. 70 THEN c - 55
    ELSE -1

RECURSIVE HexPairs(_)
HexPairs(chars) ==
    IF chars = <<>> THEN <<>>
    ELSE <<HexVal(chars[1]) * 16 + HexVal(chars[2])>> \o HexPairs(Drop(chars, 2))

\* hex::decode
HexDecode(chars) ==
    IF Len(chars) % 2 = 1 \/ \E i \in 1 .. Len(chars) : HexVal(chars[i]) < 0
    THEN Err
    ELSE Ok(HexPairs(chars))

RECURSIVE TrimLeft(_)
TrimLeft(bytes) ==
    IF bytes # <<>> /\ Head(bytes) \in {9, 10, 13, 32} THEN TrimLeft(Tail(bytes)) ELSE bytes

\* serde_json::from_slice, for the documents drawn
FromSlice(bytes) == IF TrimLeft(bytes) \in JsonDocs THEN Ok(TrimLeft(bytes)) ELSE Err

\* <bool as Decode>::decode
DecodeBool(fmt, bytes) ==
    IF fmt = "Binary"
    THEN IF bytes = <<>> THEN Panic ELSE Ok(bytes[1] # 0)
    ELSE IF bytes = <<116>> THEN Ok(TRUE)
         ELSE IF bytes = <<102>> THEN Ok(FALSE)
         ELSE Err

\* <i8 as Decode>::decode
DecodeI8(fmt, bytes) == IF bytes = <<>> THEN Ok(0) ELSE Ok(ReadSigned(bytes, 1))

\* The decode of an integer type reading its bytes least significant first.
DecodeInt_LittleEndian(fmt, bytes, w, range) ==
    IF fmt = "Binary"
    THEN IF Len(bytes) < w THEN Panic
         ELSE Ok(ReadSigned([i \in 1 .. w |-> bytes[w + 1 - i]], w))
    ELSE ParseInt(bytes, range)

\* <i16 as Decode>::decode and <i32 as Decode>::decode
DecodeInt(fmt, bytes, w, range) ==
    IF fmt = "Binary"
    THEN IF Len(bytes) < w THEN Panic ELSE Ok(ReadSigned(bytes, w))
    ELSE ParseInt(bytes, range)

\* <i64 as Decode>::decode
DecodeI64(fmt, bytes) ==
    IF fmt = "Binary"
    THEN IF Len(bytes) < 8 THEN Panic ELSE Ok(ReadI64(bytes))
    ELSE LET r == ParseInt(bytes, I32Range)
         IN  IF r.k = "Ok" THEN Ok(I64OfInt(r.v)) ELSE r

\* <f32 as Decode>::decode and <f64 as Decode>::decode, for the values drawn
DecodeFloat(fmt, bytes, w) ==
    IF fmt = "Binary"
    THEN IF Len(bytes) < w THEN Panic
         ELSE IF \E f \in FloatValues : (IF w = 4 THEN f.bits32 ELSE f.bits64) = Take(bytes, w)
         THEN Ok(CHOOSE f \in FloatValues :
                    (IF w = 4 THEN f.bits32 ELSE f.bits64) = Take(bytes, w))
         ELSE Ok([text |-> <<>>, bits32 |-> Take(bytes, w), bits64 |-> Take(bytes, w)])
    ELSE IF \E f \in FloatValues : f.text = bytes
         THEN Ok(CHOOSE f \in FloatValues : f.text = bytes)
         ELSE Err

\* <Vec<u8> as Decode>::decode
DecodeVec(fmt, bytes) ==
    IF fmt = "Binary" THEN Ok(bytes)
    ELSE IF Len(bytes) < 2 THEN Panic
    ELSE HexDecode(Drop(bytes, 2))

\* A decode of the borrowed slice that reads the text format as Vec<u8> does.
DecodeSlice_HexText(fmt, bytes) == DecodeVec(fmt, bytes)

\* <&[u8] as Decode>::decode
DecodeSlice(fmt, bytes) == IF fmt = "Binary" THEN Ok(bytes) ELSE Err

\* <Json<T> as Decode>::decode
DecodeJson(fmt, wire, bytes) ==
    IF fmt = "Binary" /\ wire = "jsonb"
    THEN IF bytes = <<>> \/ bytes[1] # 1 THEN Panic ELSE FromSlice(Tail(bytes))
    ELSE FromSlice(bytes)

\* decoder.try_decode::<T>()? of the tuple decoder, with T::decode applied to the field
TupleField(fmt, o, rust) ==
    IF o.r.k = "Panic" THEN Panic
    ELSE IF o.r.k = "Err" \/ o.r.null THEN Err
    ELSE IF rust = "i32" THEN DecodeInt(fmt, o.r.bytes, 4, I32Range)
    ELSE DecodeBool(fmt, o.r.bytes)

\* <(T1, T2) as Decode>::decode for (i32, bool)
DecodeTuple(fmt, bytes) ==
    IF Len(bytes) < (IF fmt = "Binary" THEN 4 ELSE 2) THEN Panic
    ELSE LET buf == IF fmt = "Binary" THEN Drop(bytes, 4)
                    ELSE SubSeq(bytes, 2, Len(bytes) - 1)
             try(b, ind, t) == IF fmt = "Binary" THEN TryDecodeBinary(RecordType, b, ind, t)
                               ELSE TryDecodeText(b, ind)
             o1 == try(buf, 0, 1)
             f1 == TupleField(fmt, o1, "i32")
             o2 == try(o1.buf, o1.ind, 2)
             f2 == TupleField(fmt, o2, "bool")
         IN  IF f1.k # "Ok" THEN f1
             ELSE IF f2.k # "Ok" THEN f2
             ELSE Ok([a |-> f1.v, b |-> f2.v])

\* Decode::decode(value)
Decode(ty, fmt, bytes) ==
    CASE ty.rust = "bool" -> DecodeBool(fmt, bytes)
      [] ty.rust = "i8" -> DecodeI8(fmt, bytes)
      [] ty.rust = "i16" -> DecodeInt(fmt, bytes, 2, I16Range)
      [] ty.rust = "i32" -> DecodeInt(fmt, bytes, 4, I32Range)
      [] ty.rust = "i64" -> DecodeI64(fmt, bytes)
      [] ty.rust = "f32" -> DecodeFloat(fmt, bytes, 4)
      [] ty.rust = "f64" -> DecodeFloat(fmt, bytes, 8)
      [] ty.rust = "Vec<u8>" -> DecodeVec(fmt, bytes)
      [] ty.rust = "&[u8]" -> DecodeSlice(fmt, bytes)
      [] ty.rust = "Json" -> DecodeJson(fmt, ty.wire, bytes)
      [] OTHER -> DecodeTuple(fmt, bytes)

NoType == RustType("", "")

\* The parameter types a Json argument is resolved to
JsonParamTypes == {"json", "jsonb", "json[]", "jsonb[]"}

\* Type::type_info of an encodable type: Json is declared as JSONB
Declared == {ty \in EncodableTypes : ty.rust = "Json" => ty.wire = "jsonb"}

\* What the server resolves the parameter of an encodable type to
ResolvedTypes(rust) == IF rust = "Json" THEN JsonParamTypes ELSE {""}

NoArg == [buf |-> <<>>, patches |-> <<>>, off |-> 0]

\* PgArgumentBuffer::patch: the callback is kept with the length of the buffer
PushPatch(arg) == [arg EXCEPT !.patches = Append(@, Len(arg.buf))]

\* encode_by_ref on the argument buffer: Json registers its patch, then writes
EncodeArg(ty, v, earlier) ==
    LET arg == [buf |-> earlier, patches |-> <<>>, off |-> Len(earlier)]
        patched == IF ty.rust = "Json" THEN PushPatch(arg) ELSE arg
    IN  [patched EXCEPT !.buf = @ \o Encode(ty, v)]

\* A patch that rewrites the marker for the jsonb types too.
JsonPatch_Always(buf, wire) == [buf EXCEPT ![1] = 32]

\* The closure Json hands to patch
JsonPatch(buf, wire) ==
    IF wire \in {"json", "json[]"} THEN [buf EXCEPT ![1] = 32] ELSE buf

RECURSIVE ApplyPatches(_, _, _)
\* The patches applied once the parameter type is known, each to the buffer from
\* the offset it was registered at
ApplyPatches(buf, patches, wire) ==
    IF patches = <<>> THEN buf
    ELSE LET off == Head(patches)
             done == SubSeq(buf, 1, off) \o JsonPatch(Drop(buf, off), wire)
         IN  ApplyPatches(done, Tail(patches), wire)

CodecIdle ==
    /\ cod_pc = "idle"
    /\ cod_ty = NoType
    /\ cod_val = 0
    /\ cod_fmt = "Binary"
    /\ cod_wire = <<>>
    /\ cod_src = ""
    /\ cod_res = Err
    /\ cod_arg = NoArg

\* A value is encoded as a query argument, after the bytes already in the buffer.
CodEncode(ty, v, earlier) ==
    /\ cod_pc = "idle"
    /\ cod_ty' = ty
    /\ cod_val' = v
    /\ cod_arg' = EncodeArg(ty, v, earlier)
    /\ cod_src' = "encode"
    /\ cod_pc' = "encoded"
    /\ UNCHANGED <<cod_fmt, cod_wire, cod_res>>
    /\ UNCHANGED nonCodecVars

\* The parameter type is resolved: the patches are applied and the value is
\* sent (arguments are sent in binary).
CodResolve(wire) ==
    /\ cod_pc = "encoded"
    /\ cod_ty' = [cod_ty EXCEPT !.wire = wire]
    /\ cod_arg' = [cod_arg EXCEPT !.buf = ApplyPatches(@, cod_arg.patches, wire),
                                  !.patches = <<>>]
    /\ cod_fmt' = "Binary"
    /\ cod_wire' = Drop(cod_arg'.buf, cod_arg.off)
    /\ cod_pc' = "wire"
    /\ UNCHANGED <<cod_val, cod_src, cod_res>>
    /\ UNCHANGED nonCodecVars

\* The server sends a value of the type in one of the two formats.
CodReceive(ty, fmt, v) ==
    /\ cod_pc = "idle"
    /\ cod_ty' = ty
    /\ cod_val' = v
    /\ cod_fmt' = fmt
    /\ cod_wire' = IF fmt = "Binary" THEN BinaryOf(ty, v) ELSE TextOf(ty, v)
    /\ cod_src' = "server"
    /\ cod_pc' = "wire"
    /\ UNCHANGED <<cod_res, cod_arg>>
    /\ UNCHANGED nonCodecVars

\* The bytes on the wire are decoded to the type; a value of an array type is
\* not read by the element's decode.
CodDecode ==
    /\ cod_pc = "wire"
    /\ cod_ty.wire \notin {"json[]", "jsonb[]"}
    /\ cod_res' = Decode(cod_ty, cod_fmt, cod_wire)
    /\ cod_pc' = "decoded"
    /\ UNCHANGED <<cod_ty, cod_val, cod_fmt, cod_wire, cod_src, cod_arg>>
    /\ UNCHANGED nonCodecVars

NextCodec ==
    \/ \E ty \in Declared : \E v \in ValuesOf(ty.rust) :
          \E earlier \in EarlierBytes : CodEncode(ty, v, earlier)
    \/ \E wire \in ResolvedTypes(cod_ty.rust) : CodResolve(wire)
    \/ \E ty \in CodecTypes : \E v \in ValuesOf(ty.rust) : CodReceive(ty, "Binary", v)
    \/ \E ty \in CodecTypes : \E v \in TextValuesOf(ty.rust) : CodReceive(ty, "Text", v)
    \/ CodDecode

(***************************************************************************)
(* handle_row_description (describe.rs): the loop over the fields of a row  *)
(* description, each field's type resolved by maybe_fetch_type_info_by_oid  *)
(* or, without should_fetch, by the local catalog alone.                    *)
(***************************************************************************)
MaxDescFields == 2

\* The data_type_id of the fields: a composite, an enum, and an OID without a type.
DescOids == {1, 2, MaxOid}

\* RowDescription.fields: name, data_type_id, relation_id, relation_attribute_no
\* (0 stands for None)
DescFields ==
    {[name |-> n, data_type_id |-> o, relation_id |-> 0, relation_attribute_no |-> 0] :
        n \in {"a", "b"}, o \in DescOids}
    \cup {[name |-> n, data_type_id |-> 1, relation_id |-> 101,
           relation_attribute_no |-> a] : n \in {"a", "b"}, a \in {1}}

NoDesc == [some |-> FALSE, fields |-> <<>>]
Descriptions ==
    {NoDesc} \cup {[some |-> TRUE, fields |-> fs] : fs \in Vectors(DescFields, 0, MaxDescFields)}

\* PgColumn { ordinal: index, name, type_info, relation_id, relation_attribute_no }
PgColumn(index, field, type_info) ==
    [ordinal |-> index, name |-> field.name, type_info |-> type_info,
     relation_id |-> field.relation_id,
     relation_attribute_no |-> field.relation_attribute_no]

\* The insert keeping the entry a name already has.
InsertName_KeepFirst(names, name, index) ==
    IF \E p \in names : p[1] = name THEN names ELSE names \cup {<<name, index>>}

\* column_names.insert(name, index)
InsertName(names, name, index) == {p \in names : p[1] # name} \cup {<<name, index>>}

NoReturn == [kind |-> "None", err |-> "", columns |-> <<>>, names |-> {}]
ReturnOk(columns, names) == [kind |-> "Ok", err |-> "", columns |-> columns, names |-> names]
ReturnErr(err) == [kind |-> "Err", err |-> err, columns |-> <<>>, names |-> {}]

DescribeIdle ==
    /\ hrd_pc = "idle"
    /\ hrd_desc = NoDesc
    /\ hrd_fetch = FALSE
    /\ hrd_index = 0
    /\ hrd_columns = <<>>
    /\ hrd_names = {}
    /\ hrd_log = <<>>
    /\ hrd_nq = 0
    /\ hrd_ret = NoReturn

\* handle_row_description(desc, should_fetch) up to its loop
HrdStart(desc, should_fetch) ==
    /\ hrd_pc = "idle" /\ pc = "idle" /\ res = NoRes
    /\ hrd_desc' = desc
    /\ hrd_fetch' = should_fetch
    /\ hrd_index' = 0
    /\ hrd_columns' = <<>>
    /\ hrd_names' = {}
    /\ hrd_log' = <<>>
    /\ hrd_nq' = 0
    /\ IF desc.some /\ desc.fields # <<>>
       THEN hrd_pc' = "loop" /\ hrd_ret' = NoReturn
       ELSE hrd_pc' = "done" /\ hrd_ret' = ReturnOk(<<>>, {})
    /\ UNCHANGED <<resolverVars, codecsAndNullable>>

\* The loop body after the type of the field resolved to r: with an error the
\* field is left out and the loop goes on.
HrdPush_SkipUnresolved(r, nq) ==
    LET field == hrd_desc.fields[hrd_index + 1]
        columns == IF r = "Ok"
                   THEN Append(hrd_columns, PgColumn(hrd_index, field, field.data_type_id))
                   ELSE hrd_columns
        names == IF r = "Ok" THEN InsertName(hrd_names, field.name, hrd_index)
                 ELSE hrd_names
    IN  /\ hrd_log' = Append(hrd_log, r)
        /\ hrd_nq' = hrd_nq + nq
        /\ hrd_columns' = columns
        /\ hrd_names' = names
        /\ hrd_index' = hrd_index + 1
        /\ IF hrd_index + 1 = Len(hrd_desc.fields)
           THEN hrd_pc' = "done" /\ hrd_ret' = ReturnOk(columns, names)
           ELSE hrd_pc' = "loop" /\ hrd_ret' = NoReturn
        /\ UNCHANGED <<hrd_desc, hrd_fetch>>

\* The loop body after the type of the field resolved to r: `?` returns the error,
\* otherwise the column is pushed and the loop goes on or the lists are returned.
HrdPush(r, nq) ==
    LET field == hrd_desc.fields[hrd_index + 1]
        columns == Append(hrd_columns, PgColumn(hrd_index, field, field.data_type_id))
        names == InsertName(hrd_names, field.name, hrd_index)
    IN  /\ hrd_log' = Append(hrd_log, r)
        /\ hrd_nq' = hrd_nq + nq
        /\ IF r # "Ok"
           THEN /\ hrd_pc' = "done"
                /\ hrd_ret' = ReturnErr(r)
                /\ UNCHANGED <<hrd_columns, hrd_names, hrd_index>>
           ELSE /\ hrd_columns' = columns
                /\ hrd_names' = names
                /\ hrd_index' = hrd_index + 1
                /\ IF hrd_index + 1 = Len(hrd_desc.fields)
                   THEN hrd_pc' = "done" /\ hrd_ret' = ReturnOk(columns, names)
                   ELSE hrd_pc' = "loop" /\ hrd_ret' = NoReturn
        /\ UNCHANGED <<hrd_desc, hrd_fetch>>

\* should_fetch: self.maybe_fetch_type_info_by_oid(field.data_type_id) is called
HrdResolve ==
    /\ hrd_pc = "loop" /\ hrd_fetch /\ res = NoRes
    /\ Call(hrd_desc.fields[hrd_index + 1].data_type_id)

\* ... and has returned: `.await?`; the locals of the resolver's call are gone
HrdTake ==
    /\ hrd_pc = "loop" /\ hrd_fetch
    /\ pc = "idle" /\ res.kind # "None" /\ ~res.nested
    /\ HrdPush(res.kind, stats.nq)
    /\ res' = NoRes /\ call' = NoCall /\ stats' = NoStats
    /\ UNCHANGED <<local_catalog, fetching_types, pc, unfetched, cur, row, failed, pg_range>>
    /\ UNCHANGED codecsAndNullable

\* The local lookup taking every reference that has an entry for resolved.
HrdLocal_AnyEntry ==
    /\ hrd_pc = "loop" /\ ~hrd_fetch
    /\ HrdPush(IF resolve_type_info(local_catalog,
                                    Oid(hrd_desc.fields[hrd_index + 1].data_type_id))
                     # "Undeclared"
               THEN "Ok" ELSE "TypeNotFound", 0)
    /\ UNCHANGED <<resolverVars, codecsAndNullable>>

\* not should_fetch: the local catalog alone answers
HrdLocal ==
    /\ hrd_pc = "loop" /\ ~hrd_fetch
    /\ HrdPush(IF resolve_type_info(local_catalog,
                                    Oid(hrd_desc.fields[hrd_index + 1].data_type_id))
                     = "Fetched"
               THEN "Ok" ELSE "TypeNotFound", 0)
    /\ UNCHANGED <<resolverVars, codecsAndNullable>>

\* The caller takes what handle_row_description returned.
HrdReturn ==
    /\ hrd_pc = "done"
    /\ hrd_pc' = "idle"
    /\ hrd_desc' = NoDesc
    /\ hrd_fetch' = FALSE
    /\ hrd_index' = 0
    /\ hrd_columns' = <<>>
    /\ hrd_names' = {}
    /\ hrd_log' = <<>>
    /\ hrd_nq' = 0
    /\ hrd_ret' = NoReturn
    /\ UNCHANGED <<resolverVars, codecsAndNullable>>

\* While the call awaits the resolution of a field, the resolver's session runs.
NextDescribe ==
    \/ \E desc \in Descriptions, should_fetch \in BOOLEAN : HrdStart(desc, should_fetch)
    \/ HrdResolve
    \/ HrdTake
    \/ HrdLocal
    \/ HrdReturn
    \/ PgTypeError
    \/ PgTypeReply
    \/ SecondError
    \/ SecondReply

(***************************************************************************)
(* fetch_type on its own, against a server whose pg_type may hold any pair  *)
(* of typtype and typcategory, codes that TypType and TypCategory do not     *)
(* know included.                                                            *)
(***************************************************************************)
TypTypeCodes == {"b", "c", "d", "e", "p", "r", "m"}
TypCategoryCodes == {"A", "C", "E", "P", "R", "N", "Z"}

\* The rows pg_type may hold for the OIDs 2 and 4.
DispatchRows ==
    {[oid |-> o, typname |-> 10 + o, typtype |-> t, typcategory |-> c,
      typrelid |-> 101, typelem |-> 3, typbasetype |-> 1] :
        o \in {2, 4}, t \in TypTypeCodes, c \in TypCategoryCodes}

NoFetch == [kind |-> "None"]

FetchTypeIdle ==
    /\ ft_pc = "idle"
    /\ ft_ref = NoRef
    /\ ft_row = NoRow
    /\ ft_out = NoFetch

\* fetch_type(ty_ref) issues the pg_type query
FtCall(ref) ==
    /\ ft_pc = "idle"
    /\ ft_pc' = "pg_type"
    /\ ft_ref' = ref
    /\ ft_row' = NoRow
    /\ ft_out' = NoFetch
    /\ UNCHANGED nonFetchTypeVars

\* fetch_optional finds no row
FtNoRow ==
    /\ ft_pc = "pg_type"
    /\ ft_pc' = "done"
    /\ ft_out' = [kind |-> "RowNotFound"]
    /\ UNCHANGED <<ft_ref, ft_row>>
    /\ UNCHANGED nonFetchTypeVars

\* fetch_optional gives the row r: the match on (typ_type, category)
FtRow(r) ==
    /\ ft_pc = "pg_type"
    /\ \/ ft_ref.t = "Oid" /\ r.oid = ft_ref.v
       \/ ft_ref.t = "Name" /\ ILike(r.typname, ft_ref.v)
    /\ ft_row' = r
    /\ IF NeedsSecondQuery(Dispatch(r))
       THEN ft_pc' = "second" /\ ft_out' = NoFetch
       ELSE ft_pc' = "done" /\ ft_out' = [kind |-> "Ok", ty |-> DirectType(r)]
    /\ UNCHANGED ft_ref
    /\ UNCHANGED nonFetchTypeVars

\* the pg_enum, pg_attribute or pg_range query is answered
FtSecond ==
    /\ ft_pc = "second"
    /\ ft_pc' = "done"
    /\ ft_out' = SecondResult(ft_row, pg_range)
    /\ UNCHANGED <<ft_ref, ft_row>>
    /\ UNCHANGED nonFetchTypeVars

\* a query fails in transport: `?`
FtError ==
    /\ ft_pc \in {"pg_type", "second"}
    /\ ft_pc' = "done"
    /\ ft_out' = [kind |-> "DbError"]
    /\ UNCHANGED <<ft_ref, ft_row>>
    /\ UNCHANGED nonFetchTypeVars

\* The caller takes the result.
FtReturn ==
    /\ ft_pc = "done"
    /\ ft_pc' = "idle"
    /\ ft_ref' = NoRef
    /\ ft_row' = NoRow
    /\ ft_out' = NoFetch
    /\ UNCHANGED nonFetchTypeVars

NextFetchType ==
    \/ \E ref \in {Oid(2), Oid(4), Name(12), PatternRef} : FtCall(ref)
    \/ FtNoRow
    \/ \E r \in DispatchRows : FtRow(r)
    \/ FtSecond
    \/ FtError
    \/ FtReturn

Init ==
    /\ ResolverInit /\ NullableIdle /\ DecoderIdle /\ EncoderIdle /\ CodecIdle
    /\ DescribeIdle /\ FetchTypeIdle

Next ==
    \/ \E o \in Oids : Call(o)
    \/ \E o \in NestedOids : NestedCall(o)
    \/ PgTypeError
    \/ PgTypeReply
    \/ SecondError
    \/ SecondReply
    \/ \E r \in DeclRefs : Declare(r)

Spec == Init /\ [][Next]_vars

\* Every catalog query that is awaited is answered in the end.
SpecAnswered == Spec /\ WF_vars(PgTypeReply) /\ WF_vars(SecondReply)

SpecNullable == Init /\ [][NextNullable]_vars

SpecDecoder == Init /\ [][NextDecoder]_vars

SpecEncoder == Init /\ [][NextEncoder]_vars

SpecCodec == Init /\ [][NextCodec]_vars

SpecDescribe == Init /\ [][NextDescribe]_vars

SpecFetchType == Init /\ [][NextFetchType]_vars

(***************************************************************************)
(* Properties                                                              *)
(***************************************************************************)
Returned == res.kind # "None" /\ ~res.nested
SessionRan == res.sess # "none"

\* C1: whenever no resolution call is in progress the re-entrancy guard is false,
\* whichever way the fetch session ended (Ok, TypeNotFound or a propagated error).
Thm_C1_GuardCleared == pc = "idle" => fetching_types = FALSE

\* A session has just ended with a propagated transport error and the guard is clear.
Wit_C1_ErrorExit ==
    /\ pc = "idle"
    /\ res.sess = "err"
    /\ res.kind = "DbError"
    /\ fetching_types = FALSE

\* C2: a fetch session in which every query was answered ends only when the
\* worklist is empty: nothing of the drain is left over and no reference is
\* Unfetched any more.
Cex_C2_DrainComplete ==
    (Returned /\ SessionRan /\ ~stats.dberr)
        => (stats.left = 0 /\ get_unfetched(local_catalog) = <<>>)

\* C3: the outcome is decided by the requested OID alone: a call returns Ok only
\* for a Fetched OID and fails with TypeNotFound only when the requested OID
\* itself is not Fetched.
Cex_C3_OwnOidDecides ==
    /\ (Returned /\ res.kind = "Ok") => local_catalog[Oid(res.oid)] = "Fetched"
    /\ (Returned /\ res.kind = "TypeNotFound") => local_catalog[Oid(res.oid)] # "Fetched"

\* C4 as stated: a call for an OID that is Fetched issues no catalog query and
\* does not suspend, whatever else the catalog holds.
Cex_C4_FetchedNeverQueries == call.c0 = "Fetched" => (stats.nq = 0 /\ pc = "idle")

\* C4 amended: a call for an OID that is Fetched, made while the catalog holds no
\* Unfetched entry, issues no catalog query, does not suspend and returns Ok.
Thm_C4_FastPath ==
    (call.c0 = "Fetched" /\ call.unf0 = 0)
        => /\ stats.nq = 0
           /\ pc = "idle"
           /\ Returned => (res.kind = "Ok" /\ res.oid = call.oid /\ res.sess = "none")

\* The fast path taken in a catalog that also holds a Missing entry.
Wit_C4_FastPath ==
    /\ Returned
    /\ res.kind = "Ok"
    /\ call.c0 = "Fetched"
    /\ call.unf0 = 0
    /\ stats.nq = 0
    /\ \E r \in AllRefs : local_catalog[r] = "Missing"

\* Missing after exactly one failed lookup, and never looked up again.
MissingIsSticky ==
    /\ \A r \in AllRefs : (local_catalog[r] = "Missing") <=> (failed[r] = 1)
    /\ \A r \in AllRefs : failed[r] <= 1
    /\ call.c0 = "Missing" => stats.queries[Oid(call.oid)] = 0
    /\ (res.kind # "None" /\ local_catalog[Oid(res.oid)] = "Missing") => res.kind # "Ok"

\* C5 as stated: a reference is Missing after exactly one failed lookup, no later
\* query is issued for it, and every later request for it fails with TypeNotFound.
Cex_C5_MissingSticky ==
    /\ MissingIsSticky
    /\ (Returned /\ call.c0 = "Missing") => res.kind = "TypeNotFound"

\* C5 amended: ... every later request for it fails without a new query for it,
\* with TypeNotFound or with the transport error of a query that the call issued
\* for another pending reference.
Thm_C5_MissingSticky ==
    /\ MissingIsSticky
    /\ (Returned /\ call.c0 = "Missing")
          => \/ res.kind = "TypeNotFound"
             \/ res.kind = "DbError" /\ res.who # Oid(call.oid) /\ stats.dberr

\* A later request for a Missing OID ran a session for other references and
\* failed with TypeNotFound, with no query for the Missing OID.
Wit_C5_SecondRequest ==
    /\ Returned
    /\ call.c0 = "Missing"
    /\ res.kind = "TypeNotFound"
    /\ res.who = Oid(call.oid)
    /\ stats.nq > 0
    /\ stats.queries[Oid(call.oid)] = 0
    /\ failed[Oid(call.oid)] = 1

\* The entry of r keeps or advances its state: Missing and Fetched are final,
\* an entry is never removed.
Forward(r) ==
    /\ local_catalog[r] = "Missing" => local_catalog'[r] = "Missing"
    /\ local_catalog[r] = "Fetched" => local_catalog'[r] = "Fetched"
    /\ local_catalog[r] = "Unfetched" => local_catalog'[r] # "Undeclared"

\* C6 as stated: the only transitions are Unfetched to Fetched, Unfetched to
\* Missing and undeclared to Missing.
Cex_C6_OnlyListedTransitions ==
    [][\A r \in AllRefs :
          /\ Forward(r)
          /\ local_catalog[r] = "Undeclared"
                => local_catalog'[r] \in {"Undeclared", "Missing"}]_vars

\* C6 amended: a Missing entry stays Missing, a Fetched entry stays Fetched, an
\* Unfetched entry becomes Fetched or Missing or stays; a reference without an
\* entry may get one in any of the three states.
Thm_C6_Forward == [][\A r \in AllRefs : Forward(r)]_vars

\* Every kind of transition has happened: entries are Fetched and Missing, one of
\* them declared Unfetched before, during a call for an OID that was Fetched.
Wit_C6_Transitions ==
    /\ Returned
    /\ call.c0 = "Fetched"
    /\ res.sess = "err"
    /\ res.kind = "TypeNotFound"
    /\ local_catalog[res.who] = "Missing"
    /\ local_catalog[Oid(call.oid)] = "Fetched"

\* C7: within one call, each reference is looked up by at most one pg_type
\* query and each type is inserted at most once.
Cex_C7_OneQueryPerType ==
    /\ \A r \in AllRefs : stats.queries[r] <= 1
    /\ \A o \in Oids : stats.inserts[o] <= 1

Thm_C9_CompositeFields ==
    (Returned /\ res.kind = "Ok")
        => /\ \A r \in AllRefs : local_catalog[r] # "Unfetched"
           /\ res.oid = 1 => (local_catalog[Oid(2)] = "Fetched"
                                /\ local_catalog[Oid(3)] = "Fetched")

\* The composite 1 was unknown, and one session fetched it and, in a later
\* round, its field types.
Wit_C9_LaterRound ==
    /\ Returned
    /\ res.kind = "Ok"
    /\ res.oid = 1
    /\ call.c0 = "Undeclared"
    /\ call.unf0 = 0
    /\ stats.rounds >= 2
    /\ stats.inserts[1] = 1 /\ stats.inserts[2] = 1 /\ stats.inserts[3] = 1

\* C10 as stated: a known catalog value Some(x) is the final value of its column.
Cex_C10_CatalogWins ==
    nq_pc = "done"
        => \A i \in 1 .. Len(nq_cols) : nq_cols[i] # "None" => nq_out[i] = nq_cols[i]

\* C10 amended: plan evidence wins. A column whose plan entry is Some(x) ends as
\* Some(x) whatever the catalog says; the catalog value is the result only for
\* columns whose plan entry is None or absent.
Thm_C10_PlanWins ==
    nq_pc = "done"
        => /\ Len(nq_out) = Len(nq_cols)
           /\ \A i \in 1 .. Len(nq_cols) :
                 IF i <= Len(nq_patch) /\ nq_patch[i] # "None"
                 THEN nq_out[i] = nq_patch[i]
                 ELSE nq_out[i] = nq_cols[i]

\* The catalog says not-null, the plan says nullable, the result is nullable.
Wit_C10_PlanOverrides ==
    /\ nq_pc = "done"
    /\ \E i \in 1 .. Len(nq_cols) :
          /\ i <= Len(nq_patch)
          /\ nq_cols[i] = "SomeFalse"
          /\ nq_patch[i] = "SomeTrue"
          /\ nq_out[i] = "SomeTrue"

(***************************************************************************)
(* Plan-based inference                                                    *)
(***************************************************************************)
\* get_nullable_for_columns is about to return a vector merged with a plan's patch.
PlanAnswered == nq_pc = "done" /\ nq_stat.explain = 1

\* Every node of a plan (the plans drawn have three levels).
NodesOf(plan) ==
    LET kids(p) == IF p.plans.some THEN {p.plans.v[i] : i \in 1 .. Len(p.plans.v)} ELSE {}
    IN  {plan} \cup kids(plan) \cup UNION {kids(c) : c \in kids(plan)}

\* The top node is a Left or Right join and child c, classified Inner or Full,
\* has an output named like top-level output column i.
InnerHalfNames(plan, c, i) ==
    /\ plan.jt \in {"Left", "Right"}
    /\ plan.out.some /\ plan.plans.some
    /\ c \in {plan.plans.v[k] : k \in 1 .. Len(plan.plans.v)}
    /\ c.out.some
    /\ Classification(c) \in {"Inner", "Full"}
    /\ i \in 1 .. Len(plan.out.v)
    /\ \E k \in 1 .. Len(c.out.v) : c.out.v[k] = plan.out.v[i]

\* C11 as stated: under a Left or Right join at the top, every top-level output
\* column that carries the name of an output of a child classified Inner or Full
\* has the plan entry Some(true); in a plan without any node classified Full or
\* Inner every entry is None.
Cex_C11_InnerHalfMarked ==
    PlanAnswered
        => /\ \A c \in NodesOf(nq_plan) : \A i \in 1 .. Len(nq_patch) :
                 InnerHalfNames(nq_plan, c, i) => nq_patch[i] = "SomeTrue"
           /\ (\A p \in NodesOf(nq_plan) : Classification(p) \notin {"Full", "Inner"})
                 => \A i \in 1 .. Len(nq_patch) : nq_patch[i] = "None"

\* What the position lookup does give: the first top-level column of that name.
FirstOfNameMarked ==
    PlanAnswered
        => \A c \in NodesOf(nq_plan) : \A i \in 1 .. Len(nq_patch) :
              InnerHalfNames(nq_plan, c, i) /\ Position(nq_plan.out.v, nq_plan.out.v[i]) = i
                  => nq_patch[i] = "SomeTrue"

\* No node classified Full or Inner: every entry is None.
NoInnerNoMark ==
    PlanAnswered
        => ((\A p \in NodesOf(nq_plan) : Classification(p) \notin {"Full", "Inner"})
               => \A i \in 1 .. Len(nq_patch) : nq_patch[i] = "None")

\* C12: the vector of plan inference holds only None and Some(true), never
\* Some(false), and the merge leaves every column the catalog reports as
\* Some(true) at Some(true).
Thm_C12_PlanOnlyAddsNullable ==
    /\ PlanAnswered => \A i \in 1 .. Len(nq_patch) : nq_patch[i] \in {"None", "SomeTrue"}
    /\ nq_pc = "done"
          => \A i \in 1 .. Len(nq_cols) : nq_cols[i] = "SomeTrue" => nq_out[i] = "SomeTrue"

\* A plan that marks one column and leaves another, nullable by the catalog, alone.
Wit_C12_MarkedAndUnmarked ==
    /\ PlanAnswered
    /\ \E i, j \in 1 .. Len(nq_cols) :
          /\ i <= Len(nq_patch) /\ j <= Len(nq_patch)
          /\ nq_cols[i] = "SomeTrue" /\ nq_patch[i] = "None" /\ nq_out[i] = "SomeTrue"
          /\ nq_cols[j] = "SomeFalse" /\ nq_patch[j] = "SomeTrue"

\* A call of get_nullable_for_columns has run to its return or to its error.
NqFinished == nq_pc \in {"done", "failed"}

\* C13 as stated: with crdb_version reported no explain query is issued and the
\* result is the catalog lookup unchanged; without it every call issues the
\* explain query exactly once.
Cex_C13_ExplainOncePerCall ==
    /\ nq_crdb => (nq_stat.explain = 0 /\ (nq_pc = "done" => nq_out = nq_cols))
    /\ (NqFinished /\ ~nq_crdb) => nq_stat.explain = 1

\* C13 amended: with crdb_version reported no explain query is issued and a returned
\* result is the catalog lookup unchanged; without it no call issues the explain
\* query more than once, a call that returns a vector for a statement of at least
\* one column has issued it exactly once, and a call for a statement without
\* columns, or one whose pg_attribute query failed, has not issued it.
Thm_C13_CrdbSkipsExplain ==
    /\ nq_crdb => (nq_stat.explain = 0 /\ (nq_pc = "done" => nq_out = nq_cols))
    /\ nq_stat.explain <= 1
    /\ (nq_pc = "done" /\ ~nq_crdb /\ nq_n > 0) => nq_stat.explain = 1
    /\ (nq_pc = "done" /\ nq_n = 0) => nq_stat = NoQueries
    /\ (nq_pc = "failed" /\ nq_stat.explain = 0) => nq_cols = <<>>

\* A CockroachDB session returns the catalog's answer, a not-null column included.
Wit_C13_CrdbCatalogOnly ==
    /\ nq_pc = "done" /\ nq_crdb /\ nq_n > 0
    /\ nq_stat = [attribute |-> 1, explain |-> 0]
    /\ nq_out = nq_cols
    /\ \E i \in 1 .. Len(nq_out) : nq_out[i] = "SomeFalse"

(***************************************************************************)
(* The record decoder                                                      *)
(***************************************************************************)
\* The try_decode call just made (the step appends its result to dec_out).
TryDecodeStep == dec_pc = "ready" /\ Len(dec_out') = Len(dec_out) + 1
LastResult == dec_out'[Len(dec_out')]

\* The caller of the decoder has made n calls or was stopped before.
CallsOver(n) == Len(dec_out) = n \/ dec_pc \in {"failed", "panicked"}

\* C14: on the text record (1,"a,b",) three successive try_decode calls succeed and
\* give the text 1, the text a,b and NULL.
Cex_C14_TrailingNullField ==
    (dec_value = PgValue("Text", RecordType, QuotedCommaRecord) /\ CallsOver(3))
        => dec_out = <<ValueRes(Element(<<49>>), UnknownOid),
                       ValueRes(Element(<<97, Comma, 98>>), UnknownOid),
                       ValueRes(NullElement, UnknownOid)>>

\* The first two fields of that record do come out as the claim says.
LeadingFieldsParsed ==
    (dec_value = PgValue("Text", RecordType, QuotedCommaRecord) /\ CallsOver(3))
        => /\ Len(dec_out) = 3
           /\ dec_out[1] = ValueRes(Element(<<49>>), UnknownOid)
           /\ dec_out[2] = ValueRes(Element(<<97, Comma, 98>>), UnknownOid)
           /\ dec_out[3] = ErrRes("no field")

\* C15: a field count or boundary inconsistency is a decode error, never a crash:
\* PgRecordDecoder::new on a value too short for its header returns an error, and
\* so does binary try_decode on a composite record with more fields than declared.
Cex_C15_MalformedIsError ==
    /\ dec_pc # "panicked"
    /\ \A i \in 1 .. Len(dec_out) : dec_out[i].k # "Panic"
    /\ (/\ dec_value.format = "Binary" /\ dec_value.typ.kind = "Composite"
        /\ Len(dec_out) > Len(dec_value.typ.fields))
          => dec_out[Len(dec_value.typ.fields) + 1].k = "Err"

\* C16: binary try_decode on a value of a known composite type compares the OID
\* read from the wire with the declared type of the field at the current position:
\* when equal the field is decoded with the declared type and the position
\* advances by one, when unequal the call returns an error; on a value that is
\* neither RECORD nor composite the call returns an error.
Cex_C16_DeclaredTypeChecked ==
    [][(TryDecodeStep /\ dec_value.format = "Binary")
        => /\ (/\ dec_value.typ.kind = "Composite"
               /\ Len(dec_buf) >= 4 /\ dec_ind < Len(dec_value.typ.fields))
                 => IF U32Of(dec_buf) = dec_value.typ.fields[dec_ind + 1]
                    THEN /\ dec_ind' = dec_ind + 1
                         /\ LastResult.k = "Value" => LastResult.ty = U32Of(dec_buf)
                         /\ LastResult.k = "Err" => LastResult.why = "mismatched types"
                    ELSE LastResult.k = "Err" /\ dec_ind' = dec_ind
           /\ dec_value.typ.kind = "Simple" => LastResult.k = "Err"]_vars

\* The comparison itself, wherever an OID can be read and a field is declared.
CompositeOidChecked ==
    [][(/\ TryDecodeStep /\ dec_value.format = "Binary"
        /\ dec_value.typ.kind = "Composite"
        /\ Len(dec_buf) >= 4 /\ dec_ind < Len(dec_value.typ.fields))
        => IF U32Of(dec_buf) = dec_value.typ.fields[dec_ind + 1]
           THEN /\ dec_ind' = dec_ind + 1
                /\ LastResult.k = "Value" => LastResult.ty = U32Of(dec_buf)
                /\ LastResult.k = "Err" => LastResult.why = "mismatched types"
           ELSE LastResult = ErrRes("composite type mismatch") /\ dec_ind' = dec_ind]_vars

(***************************************************************************)
(* The record encoder                                                      *)
(***************************************************************************)
\* The bytes buf[at .. at + n], offsets counted from 0
Slice(buf, at, n) == SubSeq(buf, at + 1, at + n)

\* C17: the encoder writes a 4-byte placeholder at its start offset; after k encode
\* calls and finish those four bytes hold k as a big-endian u32; the bytes that were
\* in the buffer before are never changed; each field's encoded bytes come right
\* after its type identifier, the 4-byte big-endian OID when the type is known and
\* a hole named after the type otherwise.
Thm_C17_CountBackPatched ==
    enc_pc # "idle"
        => /\ Slice(enc_buf, 0, enc_off) = enc_before
           /\ enc_off = Len(enc_before)
           /\ enc_pc = "open" => Slice(enc_buf, enc_off, 4) = U32BE(0)
           /\ enc_pc = "finished" => Slice(enc_buf, enc_off, 4) = U32BE(Len(enc_log))
           /\ \A i \in 1 .. Len(enc_log) :
                 LET e == enc_log[i]
                 IN  /\ IF e.ty.t = "Name"
                        THEN [at |-> e.at, name |-> e.ty.v] \in enc_holes
                        ELSE /\ Slice(enc_buf, e.at, 4) = U32BE(e.ty.v)
                             /\ \A h \in enc_holes : h.at # e.at
                     /\ Slice(enc_buf, e.at + 4, Len(ElementBytes(e.value)))
                           = ElementBytes(e.value)
                     /\ e.at = IF i = 1 THEN enc_off + 4
                               ELSE enc_log[i - 1].at + 4
                                       + Len(ElementBytes(enc_log[i - 1].value))

\* A finished record of three fields, one of them typed by name, after earlier bytes.
Wit_C17_ThreeFields ==
    /\ enc_pc = "finished"
    /\ enc_before # <<>>
    /\ Len(enc_log) = 3
    /\ Slice(enc_buf, enc_off, 4) = <<0, 0, 0, 3>>
    /\ enc_holes # {}
    /\ \E i \in 1 .. 3 : enc_log[i].ty.t = "Oid"

(***************************************************************************)
(* The scalar codecs                                                       *)
(***************************************************************************)
\* A value was encoded by its Encode impl and the bytes decoded again.
RoundTripped == cod_pc = "decoded" /\ cod_src = "encode"
\* A value sent by the server was decoded.
ServerDecoded == cod_pc = "decoded" /\ cod_src = "server"

\* C18: for i8, i16, i32, i64 and bool the binary decode of the binary encoding of
\* v is v, for every value and the boundaries of each width; the encoding has the
\* width of the type and is big-endian (two's complement, most significant byte
\* first), and a bool is one byte, 0 or 1.
Thm_C18_BinaryRoundTrip ==
    (RoundTripped /\ cod_ty.rust \in {"bool", "i8", "i16", "i32", "i64"})
        => /\ cod_res.k = "Ok" /\ cod_res.v = cod_val
           /\ Len(cod_wire) = Width(cod_ty.rust)
           /\ cod_ty.rust = "bool" => cod_wire = (IF cod_val THEN <<1>> ELSE <<0>>)
           /\ cod_ty.rust \in {"i8", "i16", "i32"}
                 => \A i \in 1 .. Len(cod_wire) :
                       cod_wire[i] = (cod_val \div Pow256(Len(cod_wire) - i)) % 256
           /\ cod_ty.rust = "i64"
                 => \A j \in 1 .. 4 :
                       cod_wire[2 * j - 1] * 256 + cod_wire[2 * j] = cod_val[j] % 65536

\* The smallest i64 went through its eight bytes 80 00 00 00 00 00 00 00 and back.
Wit_C18_MinI64 ==
    /\ RoundTripped
    /\ cod_ty.rust = "i64"
    /\ cod_val = <<-32768, 0, 0, 0>>
    /\ cod_wire = <<128, 0, 0, 0, 0, 0, 0, 0>>
    /\ cod_res = Ok(cod_val)

Thm_C20_ColumnsFollowFields ==
    hrd_pc = "done"
        => LET fields == hrd_desc.fields
               n == Len(fields)
           IN  /\ hrd_ret.kind \in {"Ok", "Err"}
               /\ ~hrd_desc.some
                     => /\ hrd_ret = ReturnOk(<<>>, {})
                        /\ hrd_log = <<>> /\ hrd_nq = 0 /\ pc = "idle"
               /\ (hrd_desc.some /\ Len(hrd_log) = n /\ \A i \in 1 .. n : hrd_log[i] = "Ok")
                     => /\ hrd_ret.kind = "Ok"
                        /\ Len(hrd_ret.columns) = n
                        /\ \A i \in 1 .. n :
                              hrd_ret.columns[i] =
                                  [ordinal |-> i - 1,
                                   name |-> fields[i].name,
                                   type_info |-> fields[i].data_type_id,
                                   relation_id |-> fields[i].relation_id,
                                   relation_attribute_no |-> fields[i].relation_attribute_no]
               /\ (\E i \in 1 .. Len(hrd_log) : hrd_log[i] # "Ok")
                     => hrd_ret.kind = "Err" /\ hrd_ret.columns = <<>> /\ hrd_ret.names = {}
               /\ hrd_ret.kind = "Ok" => Len(hrd_log) = n

\* Two fields of different names and types, both fetched from the server, came out
\* as two columns in the order of the fields.
Wit_C20_TwoColumnsInOrder ==
    /\ hrd_pc = "done" /\ hrd_fetch /\ hrd_ret.kind = "Ok"
    /\ Len(hrd_ret.columns) = 2
    /\ hrd_ret.columns[1].name = "b" /\ hrd_ret.columns[1].type_info = 2
    /\ hrd_ret.columns[1].ordinal = 0
    /\ hrd_ret.columns[2].name = "a" /\ hrd_ret.columns[2].type_info = 1
    /\ hrd_ret.columns[2].ordinal = 1 /\ hrd_ret.columns[2].relation_id = 101
    /\ hrd_nq > 0

\* A later field did not resolve after an earlier one had been pushed.
PartialListDropped ==
    /\ hrd_pc = "done" /\ hrd_ret.kind = "Err"
    /\ Len(hrd_log) = 2 /\ hrd_log[1] = "Ok"

\* The ordinal of the last field of that name (the name occurs).
LastOrdinal(fields, name) ==
    (CHOOSE i \in 1 .. Len(fields) :
        /\ fields[i].name = name
        /\ \A j \in (i + 1) .. Len(fields) : fields[j].name # name) - 1

\* C21: the name index returned by handle_row_description has one key per distinct
\* column name, and maps each name to the ordinal of the last column bearing it;
\* every value is a valid ordinal whose column has that name.
Thm_C21_LastWriteWins ==
    (hrd_pc = "done" /\ hrd_ret.kind = "Ok")
        => LET fields == hrd_desc.fields
               columns == hrd_ret.columns
           IN  /\ {p[1] : p \in hrd_ret.names} = {fields[i].name : i \in 1 .. Len(fields)}
               /\ \A p, q \in hrd_ret.names : p[1] = q[1] => p = q
               /\ \A p \in hrd_ret.names :
                     /\ p[2] \in 0 .. (Len(columns) - 1)
                     /\ columns[p[2] + 1].name = p[1]
                     /\ columns[p[2] + 1].ordinal = p[2]
                     /\ p[2] = LastOrdinal(fields, p[1])

\* Two columns of the same name: the index holds the second one only.
Wit_C21_DuplicateName ==
    /\ hrd_pc = "done" /\ hrd_ret.kind = "Ok"
    /\ Len(hrd_ret.columns) = 2
    /\ hrd_ret.columns[1].name = "a" /\ hrd_ret.columns[2].name = "a"
    /\ hrd_ret.names = {<<"a", 1>>}

\* A call with should_fetch = false is running or has returned.
LocalOnly == hrd_pc # "idle" /\ ~hrd_fetch

\* C22: a call of handle_row_description with should_fetch = false never issues a
\* catalog query and never changes the catalog or the guard; each field's type is
\* taken from the local catalog alone, and the call fails with TypeNotFound at the
\* first field whose type is not Fetched (Unfetched, Missing or undeclared).
Thm_C22_LocalLookupOnly ==
    [][(LocalOnly \/ LocalOnly')
        => /\ UNCHANGED resolverVars
           /\ pc = "idle" /\ ~fetching_types
           /\ hrd_nq' = 0
           /\ (hrd_pc = "loop")
                 => LET oid == hrd_desc.fields[hrd_index + 1].data_type_id
                    IN  IF local_catalog[Oid(oid)] = "Fetched"
                        THEN /\ hrd_index' = hrd_index + 1
                             /\ hrd_columns'[hrd_index'].type_info = oid
                             /\ hrd_ret'.kind # "Err"
                        ELSE /\ hrd_pc' = "done"
                             /\ hrd_ret' = ReturnErr("TypeNotFound")]_vars

\* The first field's type was Fetched, the second one's only declared: the call
\* failed there, and the entry is still Unfetched.
Wit_C22_UnfetchedFails ==
    /\ LocalOnly /\ hrd_pc = "done"
    /\ hrd_log = <<"Ok", "TypeNotFound">>
    /\ hrd_ret = ReturnErr("TypeNotFound")
    /\ local_catalog[Oid(hrd_desc.fields[2].data_type_id)] = "Unfetched"
    /\ hrd_nq = 0

\* C23: get_nullable_for_columns returns exactly one entry per statement column,
\* whatever the top-level Output list of the plan is (absent, shorter than, as long
\* as or longer than the column list); the plan entry of position i reaches
\* column i only; for a statement without columns it returns the empty vector and
\* issues no query.
Thm_C23_OneEntryPerColumn ==
    nq_pc = "done"
        => /\ Len(nq_out) = nq_n
           /\ nq_n = 0 => (nq_out = <<>> /\ nq_stat = NoQueries)
           /\ PlanAnswered
                 => /\ Len(nq_patch) = (IF nq_plan.out.some THEN Len(nq_plan.out.v) ELSE 0)
                    /\ \A i \in 1 .. nq_n :
                          nq_out[i] = IF i <= Len(nq_patch) /\ nq_patch[i] = "SomeTrue"
                                      THEN "SomeTrue"
                                      ELSE nq_cols[i]

\* Three columns and a top-level Output list of two: the second is marked by the
\* plan, the third keeps what the catalog says.
Wit_C23_ShorterOutputList ==
    /\ PlanAnswered
    /\ nq_n = 3 /\ Len(nq_patch) = 2
    /\ nq_patch = <<"None", "SomeTrue">>
    /\ nq_cols = <<"SomeFalse", "SomeFalse", "SomeFalse">>
    /\ nq_out = <<"SomeFalse", "SomeTrue", "SomeFalse">>

\* One column and a top-level Output list of four.
LongerOutputList ==
    /\ PlanAnswered
    /\ nq_n = 1 /\ Len(nq_patch) = 4 /\ nq_patch[2] = "SomeTrue"
    /\ nq_out = <<"SomeFalse">>

(***************************************************************************)
(* Fetch sessions                                                          *)
(***************************************************************************)
\* A catalog query of a fetch session is in flight.
InFlight == pc \in {"pg_type", "second"}

\* The step just taken was a whole nested call of maybe_fetch_type_info_by_oid.
NestedStep == res'.kind # "None" /\ res'.nested

\* C24: at most one fetch session is active at any time: a session is entered only
\* while the guard is false, the guard is true as long as a catalog query of the
\* session is in flight, and a call made while the guard is true issues no catalog
\* query, writes nothing to the catalog and returns with the guard still true.
Thm_C24_OneSessionAtATime ==
    [][/\ (~InFlight /\ InFlight') => (~fetching_types /\ fetching_types')
       /\ InFlight' => fetching_types'
       /\ (InFlight /\ InFlight') => (fetching_types /\ call' = call)
       /\ (fetching_types /\ NestedStep)
             => /\ local_catalog' = local_catalog
                /\ fetching_types'
                /\ stats'.nq = stats.nq /\ stats'.queries = stats.queries
                /\ stats'.inserts = stats.inserts
                /\ UNCHANGED <<pc, call, unfetched, cur, row, failed>>
                /\ res'.kind = IF local_catalog[Oid(res'.oid)] = "Fetched"
                               THEN "Ok" ELSE "TypeNotFound"]_vars

\* While the session's second query for the composite 1 was awaited, a nested call
\* for the undeclared OID 4 came back with TypeNotFound and changed nothing.
Wit_C24_NestedRefused ==
    /\ pc = "second" /\ fetching_types /\ call.oid = 1
    /\ res.nested /\ res.kind = "TypeNotFound" /\ res.oid = 4
    /\ local_catalog[Oid(4)] = "Undeclared"
    /\ stats.nq = 2

\* C25: with every query answered, every call of maybe_fetch_type_info_by_oid
\* returns in the end: the drain loop of fetch_declared does not fetch the same
\* reference again and again for ever.
Cex_C25_EveryCallReturns == (pc # "idle") ~> (pc = "idle")

\* As long as no reference by a wildcard name is pending, every call returns.
ExactNamesTerminate ==
    [](local_catalog[PatternRef] # "Unfetched") => ((pc # "idle") ~> (pc = "idle"))

(***************************************************************************)
(* The dispatch of fetch_type                                              *)
(***************************************************************************)
\* The kind the dispatch table gives for a row, by the codes of pg_type: typtype
\* b base, c composite, d domain, e enum, p pseudo, r range; typcategory A array,
\* C composite, E enum, P pseudo, R range.
TableKind(r) ==
    CASE r.typtype = "d" -> [k |-> "Domain", base |-> r.typbasetype]
      [] r.typtype = "b" /\ r.typcategory = "A" -> [k |-> "Array", elem |-> r.typelem]
      [] r.typtype = "p" /\ r.typcategory = "P" -> [k |-> "Pseudo"]
      [] r.typtype = "r" /\ r.typcategory = "R" -> [k |-> "Range", elem |-> 2]
      [] r.typtype = "e" /\ r.typcategory = "E" ->
            [k |-> "Enum", variants |-> IF r.oid = 2 THEN <<"b", "a">> ELSE <<>>]
      [] r.typtype = "c" /\ r.typcategory = "C" -> [k |-> "Composite", fields |-> <<2, 3>>]
      [] OTHER -> [k |-> "Simple"]

\* C26: fetch_type classifies a pg_type row by (typtype, typcategory) as the
\* dispatch table says: Domain with any category gives Domain(base type) with no
\* further query; (Base, Array) Array(element); (Pseudo, Pseudo) Pseudo; (Range,
\* Range) Range(subtype of pg_range); (Enum, Enum) Enum(labels in sort order);
\* (Composite, Composite) Composite(fields in attribute order); every other pair,
\* unknown codes and mismatched pairs included, Simple; the result carries the OID
\* and the name of the row.
Thm_C26_DispatchTable ==
    /\ (ft_pc = "done" /\ ft_out.kind = "Ok")
          => ft_out.ty = [oid |-> ft_row.oid, name |-> ft_row.typname,
                          kind |-> TableKind(ft_row)]
    /\ ft_pc = "second"
          => /\ ft_row.typtype # "d"
             /\ <<ft_row.typtype, ft_row.typcategory>>
                    \in {<<"r", "R">>, <<"e", "E">>, <<"c", "C">>}
    /\ (ft_pc = "done" /\ ft_row # NoRow /\ ft_out.kind = "RowNotFound")
          => <<ft_row.typtype, ft_row.typcategory>> = <<"r", "R">>

\* A row of typtype enum and typcategory composite came out as Simple.
Wit_C26_MismatchedPairSimple ==
    /\ ft_pc = "done"
    /\ ft_row.typtype = "e" /\ ft_row.typcategory = "C"
    /\ ft_out = [kind |-> "Ok", ty |-> [oid |-> 2, name |-> 12, kind |-> [k |-> "Simple"]]]

\* A domain whose category code is unknown came out as Domain of its base type.
DomainOfUnknownCategory ==
    /\ ft_pc = "done"
    /\ ft_row.typtype = "d" /\ ft_row.typcategory = "Z"
    /\ ft_out.kind = "Ok" /\ ft_out.ty.kind = [k |-> "Domain", base |-> 1]

\* The labels of the enum 2 came out in the order of enumsortorder.
EnumLabelsSorted ==
    /\ ft_pc = "done" /\ ft_out.kind = "Ok"
    /\ ft_out.ty.kind = [k |-> "Enum", variants |-> <<"b", "a">>]

\* The step just taken ended the session with the error of a failed query.
TransportAbort == InFlight /\ pc' = "idle" /\ res'.kind = "DbError"

\* C27: a transport or protocol error of a catalog query is returned to the caller
\* of maybe_fetch_type_info_by_oid as it is and ends the pass: the reference that
\* was being fetched is not flagged Missing (a reference becomes Missing only when
\* the server answered and had no row), the types inserted earlier in the pass
\* stay Fetched, no further reference of the worklist is queried, and the guard is
\* false afterwards.
Thm_C27_TransportErrorAborts ==
    [][/\ TransportAbort
             => /\ res'.who = cur /\ res'.oid = call.oid /\ ~res'.nested
                /\ local_catalog' = local_catalog
                /\ local_catalog'[cur] # "Missing"
                /\ \A o \in Oids : stats.inserts[o] > 0 => local_catalog'[Oid(o)] = "Fetched"
                /\ stats'.nq = stats.nq /\ stats'.queries = stats.queries
                /\ stats'.left = Len(unfetched)
                /\ ~fetching_types'
                /\ failed' = failed
       /\ (InFlight /\ local_catalog'[cur] = "Missing")
             => /\ res'.kind = "TypeNotFound"
                /\ IF pc = "pg_type" THEN FindRow(cur) = NoRow
                   ELSE \A x \in pg_range : x.rngtypid # row.oid]_vars

\* The composite 1 was inserted, then the query for its field type 2 failed with
\* the array 3 still on the worklist: 1 is Fetched, 2 and 3 are still Unfetched.
Wit_C27_AbortedMidPass ==
    /\ Returned /\ res.kind = "DbError" /\ res.who = Oid(2)
    /\ call.oid = 1
    /\ stats.inserts[1] = 1 /\ local_catalog[Oid(1)] = "Fetched"
    /\ local_catalog[Oid(2)] = "Unfetched" /\ local_catalog[Oid(3)] = "Unfetched"
    /\ stats.left = 1 /\ stats.queries[Oid(3)] = 0
    /\ ~fetching_types

(***************************************************************************)
(* The plan traversal                                                      *)
(***************************************************************************)
\* The children of a node.
Children(p) == IF p.plans.some THEN {p.plans.v[i] : i \in 1 .. Len(p.plans.v)} ELSE {}

\* The nodes of a plan all of whose ancestors have the Join Type Left or Right.
Examined(plan) ==
    LET joins(p) == p.jt \in {"Left", "Right"}
        below(p) == IF joins(p) THEN Children(p) ELSE {}
    IN  {plan} \cup below(plan) \cup UNION {below(c) : c \in below(plan)}

\* A node classified by its Join Type, or by its Parent Relationship when it has
\* no Join Type, as Full or Inner.
MarksOutputs(p) ==
    \/ p.jt \in {"Full", "Inner"}
    \/ p.jt = "None" /\ p.pr \in {"Full", "Inner"}

\* C28: the traversal descends into the children of a node only when the node's
\* own Join Type is Left or Right, whatever its Parent Relationship, and marks the
\* outputs of a node only when its classification (its Join Type, or its Parent
\* Relationship when it has no Join Type) is Full or Inner: a column is marked
\* exactly when an examined node so classified lists its name, and no node below
\* a node that is not a Left or Right join counts.
Thm_C28_DescentByJoinType ==
    (PlanAnswered /\ nq_plan.out.some)
        => \A i \in 1 .. Len(nq_patch) :
              nq_patch[i] = "SomeTrue"
                 <=> \E p \in Examined(nq_plan) :
                        /\ MarksOutputs(p) /\ p.out.some
                        /\ \E k \in 1 .. Len(p.out.v) :
                              Position(nq_plan.out.v, p.out.v[k]) = i

\* Under a Left join, a child that is itself a Left join with Parent Relationship
\* Inner is not marked but descended into: its Full child marks column b only.
Wit_C28_JoinTypeBeforeParent ==
    /\ PlanAnswered
    /\ nq_plan.jt = "Left" /\ nq_plan.out = Present(<<"a", "b">>)
    /\ nq_plan.plans =
          Present(<<Node("Left", "Inner", Present(<<"a">>),
                         Present(<<Node("Full", "Outer", Present(<<"b">>), Absent)>>))>>)
    /\ nq_patch = <<"None", "SomeTrue">>

\* A child classified Inner under a top node that is no join: nothing is marked.
NotExaminedBelowNonJoin ==
    /\ PlanAnswered
    /\ nq_plan.jt = "None" /\ nq_plan.out = Present(<<"a", "b">>)
    /\ \E c \in Children(nq_plan) : c.jt = "Inner" /\ c.out = Present(<<"a">>)
    /\ nq_patch = <<"None", "None">>

(***************************************************************************)
(* The text parser against the unescaping of composite text                *)
(***************************************************************************)
RECURSIVE RefLoop(_, _)
\* The reference reading of one field of a composite literal: a backslash takes
\* the next character as it is; a double quote outside quotes opens a quoted
\* section; inside one, two double quotes are one literal quote and a single one
\* closes the section; a comma outside quotes ends the field.  A field that ends
\* inside quotes or after a lone backslash is malformed.
RefLoop(buf, st) ==
    IF buf = <<>> THEN [st EXCEPT !.ok = ~st.inquote, !.rest = <<>>]
    ELSE LET ch == Head(buf)
             rest == Tail(buf)
         IN  IF ch = Backslash
             THEN IF rest = <<>> THEN [st EXCEPT !.ok = FALSE]
                  ELSE RefLoop(Tail(rest), [st EXCEPT !.element = Append(@, Head(rest))])
             ELSE IF ch = Quote /\ ~st.inquote
             THEN RefLoop(rest, [st EXCEPT !.inquote = TRUE, !.quoted = TRUE])
             ELSE IF ch = Quote /\ rest # <<>> /\ Head(rest) = Quote
             THEN RefLoop(Tail(rest), [st EXCEPT !.element = Append(@, Quote)])
             ELSE IF ch = Quote
             THEN RefLoop(rest, [st EXCEPT !.inquote = FALSE])
             ELSE IF ch = Comma /\ ~st.inquote
             THEN [st EXCEPT !.ok = TRUE, !.rest = rest]
             ELSE RefLoop(rest, [st EXCEPT !.element = Append(@, ch)])

RefField(buf) ==
    RefLoop(buf, [element |-> <<>>, quoted |-> FALSE, inquote |-> FALSE, ok |-> FALSE,
                  rest |-> <<>>])

\* The element the reference reading gives: NULL for an empty unquoted field.
RefElement(buf) ==
    LET f == RefField(buf)
    IN  IF f.element = <<>> /\ ~f.quoted THEN NullElement ELSE Element(f.element)

\* A try_decode call on a text record whose next field is a well-formed string
\* over the alphabet letter, comma, double quote, backslash.
TextFieldStep ==
    /\ TryDecodeStep /\ dec_value.format = "Text" /\ dec_buf # <<>>
    /\ \A i \in 1 .. Len(dec_buf) : dec_buf[i] < 128
    /\ RefField(dec_buf).ok

\* A quote escaped by a backslash, outside quotes, right before an opening quote.
EscapedQuoteThenQuote(buf) ==
    \E i \in 1 .. (Len(buf) - 2) :
        /\ buf[i] = Backslash /\ buf[i + 1] = Quote /\ buf[i + 2] = Quote
        /\ RefField(SubSeq(buf, 1, i - 1) \o <<Comma>>).ok

\* C29: on every field string over the alphabet letter, comma, double quote,
\* backslash the text parser of try_decode gives what the reference unescaping
\* gives (a backslash makes the next character literal, a double quote toggles
\* the quoted state without output, a doubled quote inside quotes is one literal
\* quote, a comma ends the field only outside quotes, a quoted empty field is the
\* empty text and not NULL), and each call consumes one field and its comma.
Cex_C29_TextParserAgrees ==
    [][TextFieldStep
        => /\ LastResult = ValueRes(RefElement(dec_buf), UnknownOid)
           /\ dec_buf' = RefField(dec_buf).rest]_vars

\* The parser does agree wherever no escaped quote stands right before an
\* opening quote.
AgreesButAfterEscapedQuote ==
    [][(TextFieldStep /\ ~EscapedQuoteThenQuote(dec_buf))
        => /\ LastResult = ValueRes(RefElement(dec_buf), UnknownOid)
           /\ dec_buf' = RefField(dec_buf).rest]_vars

\* Json::encode_by_ref has just written into the argument buffer.
JsonEncoded == cod_pc = "idle" /\ cod_pc' = "encoded" /\ cod_ty'.rust = "Json"

\* The parameter type of a Json argument has just been resolved.
JsonResolved == cod_pc = "encoded" /\ cod_pc' = "wire" /\ cod_ty.rust = "Json"

\* A Json value has just been decoded.
JsonDecoded == cod_pc = "wire" /\ cod_pc' = "decoded" /\ cod_ty.rust = "Json"

\* Decode removes the leading byte of this value.
Strips == cod_fmt = "Binary" /\ cod_ty.wire = "jsonb"

\* C30: Json's encode appends the byte 1 and then the JSON text to the buffer; when
\* the parameter type is resolved, the marker byte becomes a space exactly when
\* the type is json or json[] and every other byte of the buffer, earlier
\* arguments included, stays as it was; decode parses the bytes after the first
\* exactly when the format is Binary and the type is jsonb, that first byte
\* being 1, and all the bytes otherwise; so a document encoded and resolved to
\* jsonb or to json is decoded to the same document.
Thm_C30_MarkerConsistent ==
    [][/\ JsonEncoded
          => /\ SubSeq(cod_arg'.buf, 1, cod_arg'.off) \in EarlierBytes
             /\ Drop(cod_arg'.buf, cod_arg'.off) = <<1>> \o cod_val'
       /\ JsonResolved
          => /\ Len(cod_arg'.buf) = Len(cod_arg.buf)
             /\ \A i \in 1 .. Len(cod_arg.buf) :
                   cod_arg'.buf[i] =
                       IF i = cod_arg.off + 1
                       THEN (IF cod_ty'.wire \in {"json", "json[]"} THEN 32 ELSE 1)
                       ELSE cod_arg.buf[i]
             /\ cod_wire' = Drop(cod_arg'.buf, cod_arg.off)
       /\ JsonDecoded
          => /\ Strips => cod_wire # <<>> /\ cod_wire[1] = 1
             /\ cod_res' = FromSlice(IF Strips THEN Tail(cod_wire) ELSE cod_wire)
             /\ cod_src = "encode" => cod_res' = Ok(cod_val)]_vars

\* The document [1], encoded after an earlier argument and resolved to json, went
\* out with a space for its marker and was decoded to [1] again.
Wit_C30_JsonSpaceRoundTrip ==
    /\ RoundTripped
    /\ cod_ty = RustType("Json", "json")
    /\ cod_arg.buf = <<0, 0, 0, 1, 9, 32, 91, 49, 93>>
    /\ cod_wire = <<32, 91, 49, 93>>
    /\ cod_res = Ok(<<91, 49, 93>>)

\* C31 as stated: a reference flagged Missing is one whose pg_type lookup finds no
\* row; a type whose pg_type row exists is never flagged Missing, whatever the
\* pg_range, pg_enum or pg_attribute query made for its descriptor returns.
Cex_C31_MissingOnlyWithoutRow ==
    \A r \in AllRefs : local_catalog[r] = "Missing" => FindRow(r) = NoRow

\* What the code does: a reference is flagged Missing when its pg_type lookup finds
\* no row, or when the row is a range type and pg_range holds no row for it; the
\* enum and composite queries never flag a type.
MissingWithoutRowOrRange ==
    \A r \in AllRefs :
        local_catalog[r] = "Missing"
            => \/ FindRow(r) = NoRow
               \/ /\ Dispatch(FindRow(r)) = "Range"
                  /\ \A x \in pg_range : x.rngtypid # FindRow(r).oid

\* The range type 4 has its pg_type row, the server has no pg_range row for it, and
\* the call for 4 ended with TypeNotFound and the entry flagged Missing.
RangeFlaggedMissing ==
    /\ pc = "idle" /\ res.kind = "TypeNotFound" /\ res.who = Oid(4)
    /\ FindRow(Oid(4)) # NoRow
    /\ local_catalog[Oid(4)] = "Missing"

\* The bytes of the field at the front of buf when the field is plain: all bytes
\* before the first comma.
FrontField(buf) ==
    LET n == CHOOSE k \in 0 .. Len(buf) :
                 /\ \A i \in 1 .. k : buf[i] # Comma
                 /\ k = Len(buf) \/ buf[k + 1] = Comma
    IN  SubSeq(buf, 1, n)

\* A try_decode call on a text record whose next field holds no quote and no
\* backslash.
PlainFieldStep ==
    /\ TryDecodeStep /\ dec_value.format = "Text" /\ dec_buf # <<>>
    /\ \A i \in 1 .. Len(FrontField(dec_buf)) :
          FrontField(dec_buf)[i] \notin {Quote, Backslash}

\* The number of bytes of 0x80 and above
RECURSIVE HighBytes(_)
HighBytes(bytes) ==
    IF bytes = <<>> THEN 0
    ELSE (IF Head(bytes) >= 128 THEN 1 ELSE 0) + HighBytes(Tail(bytes))

\* C32: for a text-format field without quote, backslash or comma, the bytes handed
\* to the field's decode are the bytes of the field in the input, of the same
\* length, for every byte value, 0x80 and above included.
Cex_C32_PlainFieldBytesKept ==
    [][PlainFieldStep
        => /\ LastResult.k = "Value"
           /\ LastResult.bytes = FrontField(dec_buf)]_vars

\* What the code does: the bytes below 0x80 are handed on as they are, and every
\* byte of 0x80 and above becomes the two UTF-8 bytes of the character U+0080 to
\* U+00FF of that number.
PlainFieldBytesBelow128Kept ==
    [][PlainFieldStep
        => /\ LastResult.k = "Value"
           /\ Len(LastResult.bytes) = Len(FrontField(dec_buf)) + HighBytes(FrontField(dec_buf))
           /\ HighBytes(FrontField(dec_buf)) = 0
                 => LastResult.bytes = FrontField(dec_buf)]_vars

\* The two bytes of U+00E9 in UTF-8 were handed to decode as four bytes.
HighBytesDoubled ==
    /\ dec_value.bytes = <<LParen, 195, 169, RParen>>
    /\ Len(dec_out) = 1
    /\ dec_out[1] = ValueRes(Element(<<195, 131, 194, 169>>), UnknownOid)

====
